---------------------------- MODULE Spec2Model ----------------------------
(***************************************************************************)
(* State-machine model of sborka-bot: the onboarding questionnaire, the    *)
(* gate in front of the chat path, sphere routing, context storage and     *)
(* summarization, as implemented under src/bot and src/webapp.             *)
(*                                                                         *)
(* One action models one inbound event handled end to end (a command, a    *)
(* callback, a text or voice message, a web-form request).  The bot's      *)
(* Application is built without concurrent updates (src/bot/main.py:127),  *)
(* so a handler runs to completion before the next update is taken.        *)
(***************************************************************************)
EXTENDS Integers, Sequences, FiniteSets, TLC

VARIABLES
    users,      \* table "users": telegram_id -> row (DOMAIN = existing rows)
    messages,   \* table "messages": sequence of rows in insertion (id) order
    summaries,  \* table "summarizations": sequence of rows in insertion order
    now,        \* the clock read by datetime.utcnow
    skip,       \* environment flag SKIP_PERSONALITY_REQUESTS
    last,       \* what the most recently handled event did (observer)
    call        \* the helper call or routed message under observation: its
                \* arguments and what it returned (observer)

vars == <<users, messages, summaries, now, skip, last, call>>

-----------------------------------------------------------------------------
(* Bounds of the model.                                                    *)

\* number of entries of content/onboarding.json (len(self.questions))
NumQuestions == 2
\* answers accepted beyond the last question before the model stops counting
MaxOverrun == 1
\* chat exchanges persisted in one run
MaxTurns == 1
\* pieces a topic name is put together from
MaxNameParts == 3
\* exchanges of one user in one sphere in a stored conversation
MaxScriptTurns == 14
\* exchanges of another user, or in another sphere, stored in between
MaxSideTurns == 3

-----------------------------------------------------------------------------
(* Values.                                                                 *)

\* a NULL column / Python None, for text columns
Null == "NULL"
\* a NULL integer column (chat_id, thread_*) / message_thread_id None
NoId == -1

Users == {1}
Spheres == {"center", "soul", "body", "business"}
\* _build_answer_keyboard: callback data onboard_A .. onboard_D.  No handler
\* branches on the letter (it is only stored), so one letter stands for all.
Letters == {"A"}

\* Python truthiness of an optional text value
Truthy(x) == x # Null /\ x # ""

\* all([...]) over a set of optional text values
AllTruthy(S) == \A x \in S : Truthy(x)


-----------------------------------------------------------------------------
(* Rows of table "users" (src/bot/database/models.py, class User).         *)

NullBySphere == [s \in Spheres |-> Null]

\* get_or_create_user, creation branch: a new row and its column defaults
NewUser(id) ==
    [ id                 |-> id,
      is_onboarding      |-> TRUE,
      onboarding_step    |-> 0,
      onboarding_answers |-> <<>>,      \* the Text "" (read back as [])
      psychotype         |-> Null,
      recommended        |-> NullBySphere,
      selected           |-> NullBySphere,
      chat_id            |-> NoId,
      thread             |-> [s \in Spheres |-> NoId] ]

\* get_or_create_user: the table after the call.  The primary key is the
\* next autoincrement value; rows are never deleted.
\* The callers in commands.py and onboarding.py also pass first_name and
\* last_name, which helpers.py as given does not accept; the names reach no
\* column that any handler reads, so the row is modelled without them.
get_or_create_user(t, u) ==
    IF u \in DOMAIN t
    THEN t
    ELSE (u :> NewUser(Cardinality(DOMAIN t) + 1)) @@ t

-----------------------------------------------------------------------------
(* Outbound messages of a handler, in the order they are sent.             *)

Reply(kind) == [kind |-> kind, step |-> 0 - 1, text |-> ""]
QuestionReply(step) == [kind |-> "question", step |-> step, text |-> ""]
TextReply(kind, text) == [kind |-> kind, step |-> 0 - 1, text |-> text]

\* what a handler did: the table it leaves, what it sent, and how many
\* calls it made to the generation capability
Done(t, replies, gen) == [users |-> t, replies |-> replies, gen |-> gen]

-----------------------------------------------------------------------------
(* Onboarding (src/bot/handlers/onboarding.py).                            *)

\* _send_question: the question is sent unless the step is out of range
send_question(step) ==
    IF step >= NumQuestions THEN <<>> ELSE <<QuestionReply(step)>>

\* reset_onboarding with the answers left in place
reset_onboarding_keeps_answers(row) ==
    [row EXCEPT !.is_onboarding = TRUE,
                !.onboarding_step = 0,
                !.psychotype = Null]

\* reset_onboarding with the psychotype left in place
reset_onboarding_keeps_psychotype(row) ==
    [row EXCEPT !.is_onboarding = TRUE,
                !.onboarding_step = 0,
                !.onboarding_answers = <<>>]

\* start_onboarding, the session block that resets the onboarding state
reset_onboarding(row) ==
    [row EXCEPT !.is_onboarding = TRUE,
                !.onboarding_step = 0,
                !.onboarding_answers = <<>>,
                !.psychotype = Null]

\* start_onboarding sending the question after the first
start_onboarding_second_question(t, u) ==
    LET t1 == get_or_create_user(t, u)
        t2 == [t1 EXCEPT ![u] = reset_onboarding(t1[u])]
    IN  Done(t2, send_question(1), 0)

\* start_onboarding: get or create the row, reset it, send question 0
start_onboarding(t, u) ==
    LET t1 == get_or_create_user(t, u)
        t2 == [t1 EXCEPT ![u] = reset_onboarding(t1[u])]
    IN  Done(t2, send_question(0), 0)

\* hardcoded values used when SKIP_PERSONALITY_REQUESTS is set
SkipPsychotype == "Obyknovennyj chelovek"
SkipRecommendations == [s \in Spheres |-> "vibe"]

\* the validation loop over required_fields
HasRequiredFields(rec) == \A f \in Spheres : f \in DOMAIN rec

\* save_classification without the pre-selection of the recommendations
save_classification_no_selected(row, psy, rec) ==
    [row EXCEPT !.psychotype = psy,
                !.recommended = [s \in Spheres |-> rec[s]],
                !.is_onboarding = FALSE]

\* the session block that saves the classification
save_classification(row, psy, rec) ==
    [row EXCEPT !.psychotype = psy,
                !.recommended = [s \in Spheres |-> rec[s]],
                !.selected = [s \in Spheres |-> rec[s]],
                !.is_onboarding = FALSE]

\* _complete_onboarding asking the generation capability whatever the flag
complete_onboarding_ignores_skip(t, u, o) ==
    LET gen == IF o.psy_ok THEN 2 ELSE 1
    IN  IF o.psy_ok /\ o.json_ok /\ HasRequiredFields(o.rec)
        THEN Done([t EXCEPT ![u] = save_classification(t[u], o.psy, o.rec)],
                  <<Reply("processing"), Reply("test_done"),
                    Reply("choose_curators"), Reply("help")>>,
                  gen)
        ELSE Done(t, <<Reply("processing"), Reply("completion_error")>>, gen)

\* _complete_onboarding saving the psychotype as soon as it is generated,
\* before the recommendations are validated
complete_onboarding_partial(t, u, o) ==
    LET psy_ok  == skip \/ o.psy_ok
        json_ok == skip \/ o.json_ok
        psy     == IF skip THEN SkipPsychotype ELSE o.psy
        rec     == IF skip THEN SkipRecommendations ELSE o.rec
        gen     == IF skip THEN 0 ELSE IF o.psy_ok THEN 2 ELSE 1
        t1      == IF psy_ok THEN [t EXCEPT ![u].psychotype = psy] ELSE t
    IN  IF psy_ok /\ json_ok /\ HasRequiredFields(rec)
        THEN Done([t EXCEPT ![u] = save_classification(t[u], psy, rec)],
                  <<Reply("processing"), Reply("test_done"),
                    Reply("choose_curators"), Reply("help")>>,
                  gen)
        ELSE Done(t1, <<Reply("processing"), Reply("completion_error")>>, gen)

\* _complete_onboarding.  o is what the generation capability does when
\* asked: o.psy_ok / o.psy for generate_response, o.json_ok / o.rec for
\* generate_json_response (not ok = the call raises).
complete_onboarding(t, u, o) ==
    LET psy_ok  == skip \/ o.psy_ok
        json_ok == skip \/ o.json_ok
        psy     == IF skip THEN SkipPsychotype ELSE o.psy
        rec     == IF skip THEN SkipRecommendations ELSE o.rec
        gen     == IF skip THEN 0 ELSE IF o.psy_ok THEN 2 ELSE 1
    IN  IF psy_ok /\ json_ok /\ HasRequiredFields(rec)
        THEN Done([t EXCEPT ![u] = save_classification(t[u], psy, rec)],
                  <<Reply("processing"), Reply("test_done"),
                    Reply("choose_curators"), Reply("help")>>,
                  gen)
        ELSE Done(t, <<Reply("processing"), Reply("completion_error")>>, gen)

\* store_answer moving the step back instead of forward
store_answer_rewinds(row, answer) ==
    [row EXCEPT !.onboarding_answers =
                    Append(@, [question_index |-> row.onboarding_step,
                               answer |-> answer]),
                !.onboarding_step = @ - 1]

\* the variant that numbers the records from one
store_answer_numbers_from_one(row, answer) ==
    [row EXCEPT !.onboarding_answers =
                    Append(@, [question_index |-> row.onboarding_step + 1,
                               answer |-> answer]),
                !.onboarding_step = @ + 1]

\* handle_answer, the session block that stores the answer
store_answer(row, answer) ==
    [row EXCEPT !.onboarding_answers =
                    Append(@, [question_index |-> row.onboarding_step,
                               answer |-> answer]),
                !.onboarding_step = @ + 1]

\* handle_answer without the test of is_onboarding
handle_answer_unchecked(t, u, answer, o) ==
    IF u \notin DOMAIN t
    THEN Done(t, <<Reply("user_not_found")>>, 0)
    ELSE LET t1 == [t EXCEPT ![u] = store_answer(t[u], answer)]
             next_step == t1[u].onboarding_step
         IN  IF next_step >= NumQuestions
             THEN complete_onboarding(t1, u, o)
             ELSE Done(t1, send_question(next_step), 0)

\* handle_answer sending again the question that was just answered
handle_answer_repeats_question(t, u, answer, o) ==
    IF u \notin DOMAIN t
    THEN Done(t, <<Reply("user_not_found")>>, 0)
    ELSE IF ~t[u].is_onboarding
    THEN Done(t, <<Reply("already_passed")>>, 0)
    ELSE LET t1 == [t EXCEPT ![u] = store_answer(t[u], answer)]
             next_step == t1[u].onboarding_step
         IN  IF next_step >= NumQuestions
             THEN complete_onboarding(t1, u, o)
             ELSE Done(t1, send_question(t[u].onboarding_step), 0)

\* handle_answer
handle_answer(t, u, answer, o) ==
    IF u \notin DOMAIN t
    THEN Done(t, <<Reply("user_not_found")>>, 0)
    ELSE IF ~t[u].is_onboarding
    THEN Done(t, <<Reply("already_passed")>>, 0)
    ELSE LET t1 == [t EXCEPT ![u] = store_answer(t[u], answer)]
             next_step == t1[u].onboarding_step
         IN  IF next_step >= NumQuestions
             THEN complete_onboarding(t1, u, o)
             ELSE Done(t1, send_question(next_step), 0)

\* is_user_onboarding with the stored flag negated
is_user_onboarding_inverted(t, u) ==
    IF u \notin DOMAIN t THEN TRUE ELSE ~t[u].is_onboarding

\* is_user_onboarding
is_user_onboarding(t, u) ==
    IF u \notin DOMAIN t THEN TRUE ELSE t[u].is_onboarding

-----------------------------------------------------------------------------
(* Sphere routing (src/bot/utils/helpers.py).                              *)
(* A topic name is a sequence of characters; Cyrillic letters are written  *)
(* in transliteration, one model character per letter, capitals in upper   *)
(* case: d u sh a = "dusha" (soul), d e l o (business), t e l o (body),    *)
(* sh t a b (center).                                                      *)

LowerOf ==
    [c \in {"D", "U", "SH", "A", "E", "L", "O", "T", "B"} |->
        CASE c = "D" -> "d" [] c = "U" -> "u" [] c = "SH" -> "sh"
          [] c = "A" -> "a" [] c = "E" -> "e" [] c = "L" -> "l"
          [] c = "O" -> "o" [] c = "T" -> "t" [] c = "B" -> "b"]

\* str.lower()
lower(name) ==
    [i \in 1..Len(name) |->
        IF name[i] \in DOMAIN LowerOf THEN LowerOf[name[i]] ELSE name[i]]

\* keyword in topic_lower
Contains(hay, needle) ==
    \E i \in 1..(Len(hay) - Len(needle) + 1) :
        SubSeq(hay, i, i + Len(needle) - 1) = needle

\* sphere_mapping, in the dict's insertion order
sphere_mapping ==
    << [keyword |-> <<"d", "u", "sh", "a">>, sphere |-> "soul"],
       [keyword |-> <<"d", "e", "l", "o">>,  sphere |-> "business"],
       [keyword |-> <<"t", "e", "l", "o">>,  sphere |-> "body"],
       [keyword |-> <<"sh", "t", "a", "b">>, sphere |-> "center"] >>

\* detect_sphere_from_topic with the last matching entry of the table
\* winning instead of the first
detect_sphere_from_topic_last_wins(topic_name) ==
    IF topic_name = <<>>
    THEN Null
    ELSE LET hits == {i \in DOMAIN sphere_mapping :
                         Contains(lower(topic_name), sphere_mapping[i].keyword)}
         IN  IF hits = {}
             THEN Null
             ELSE sphere_mapping[CHOOSE i \in hits : \A j \in hits : i >= j].sphere

\* detect_sphere_from_topic; an absent name (None) is the empty sequence,
\* which the first test treats like ""
detect_sphere_from_topic(topic_name) ==
    IF topic_name = <<>>
    THEN Null
    ELSE LET topic_lower == lower(topic_name)
             hits == {i \in DOMAIN sphere_mapping :
                         Contains(topic_lower, sphere_mapping[i].keyword)}
         IN  IF hits = {}
             THEN Null
             ELSE sphere_mapping[CHOOSE i \in hits : \A j \in hits : i <= j].sphere

\* update_user_thread that unbinds a sphere bound to the same thread
update_user_thread_toggles(t, u, sphere, thread_id, chat_id) ==
    IF u \notin DOMAIN t
    THEN t
    ELSE [t EXCEPT ![u].chat_id = chat_id,
                   ![u].thread[sphere] = IF @ = thread_id THEN NoId ELSE thread_id]

\* update_user_thread
\* the variant that writes the binding into every row of the forum chat
update_user_thread_every_row(t, u, sphere, thread_id, chat_id) ==
    IF u \notin DOMAIN t
    THEN t
    ELSE [v \in DOMAIN t |->
             [t[v] EXCEPT !.chat_id = chat_id,
                          !.thread = IF sphere \in Spheres
                                     THEN [@ EXCEPT ![sphere] = thread_id]
                                     ELSE @]]

update_user_thread(t, u, sphere, thread_id, chat_id) ==
    IF u \notin DOMAIN t
    THEN t
    ELSE [t EXCEPT ![u].chat_id = chat_id,
                   ![u].thread = IF sphere \in Spheres
                                 THEN [@ EXCEPT ![sphere] = thread_id]
                                 ELSE @]

\* get_sphere_by_thread without the comparison of chat ids
get_sphere_by_thread_any_chat(t, u, chat_id, thread_id) ==
    IF u \notin DOMAIN t THEN Null
    ELSE IF thread_id = t[u].thread["soul"] THEN "soul"
    ELSE IF thread_id = t[u].thread["body"] THEN "body"
    ELSE IF thread_id = t[u].thread["business"] THEN "business"
    ELSE IF thread_id = t[u].thread["center"] THEN "center"
    ELSE Null

\* get_sphere_by_thread
get_sphere_by_thread(t, u, chat_id, thread_id) ==
    IF u \notin DOMAIN t THEN Null
    ELSE IF t[u].chat_id # chat_id THEN Null
    ELSE IF thread_id = t[u].thread["soul"] THEN "soul"
    ELSE IF thread_id = t[u].thread["body"] THEN "body"
    ELSE IF thread_id = t[u].thread["business"] THEN "business"
    ELSE IF thread_id = t[u].thread["center"] THEN "center"
    ELSE Null

\* Python truthiness of an optional integer (None and 0 are false)
TruthyId(x) == x # NoId /\ x # 0

-----------------------------------------------------------------------------
(* Summarization (src/bot/services/summarization_service.py).              *)

FIRST_SUMMARIZATION_THRESHOLD == 3
REGULAR_SUMMARIZATION_THRESHOLD == 10

\* _get_last_summarization: index of the row with the greatest created_at
\* among the rows of (user_id, sphere); 0 when there is none
get_last_summarization(sums, user_id, sphere) ==
    LET S == {i \in DOMAIN sums :
                 sums[i].user_id = user_id /\ sums[i].sphere = sphere}
    IN  IF S = {}
        THEN 0
        ELSE CHOOSE i \in S : \A j \in S : sums[j].created_at <= sums[i].created_at

\* _get_messages_since_last_summarization; timestamps grow with the row id,
\* so ORDER BY created_at is the insertion order
get_messages_since_last_summarization(msgs, sums, user_id, sphere) ==
    LET last_sum == get_last_summarization(sums, user_id, sphere)
        Keep(m) == /\ m.user_id = user_id
                   /\ m.sphere = sphere
                   /\ (last_sum # 0 => m.created_at > sums[last_sum].created_at)
    IN  SelectSeq(msgs, Keep)

\* should_summarize counting the rows of every role
should_summarize_counts_all_roles(msgs, sums, user_id, sphere) ==
    LET count == Len(get_messages_since_last_summarization(msgs, sums, user_id, sphere))
    IN  IF get_last_summarization(sums, user_id, sphere) # 0
        THEN count >= REGULAR_SUMMARIZATION_THRESHOLD
        ELSE count >= FIRST_SUMMARIZATION_THRESHOLD

\* should_summarize
should_summarize(msgs, sums, user_id, sphere) ==
    LET window == get_messages_since_last_summarization(msgs, sums, user_id, sphere)
        IsUser(m) == m.role = "user"
        count == Len(SelectSeq(window, IsUser))
        has_previous == get_last_summarization(sums, user_id, sphere) # 0
    IN  IF has_previous
        THEN count >= REGULAR_SUMMARIZATION_THRESHOLD
        ELSE count >= FIRST_SUMMARIZATION_THRESHOLD

\* _get_last_summarization returns its row after its session has committed
\* and closed, and _get_messages_since_last_summarization then reads the
\* row's created_at (line 79).  Whether that read yields the value or
\* raises depends on the session's expire_on_commit, which session.py
\* leaves at the library's default: c.detached_ok says which.  The read
\* happens only when the conversation has a Summary.
last_sum_read_raises(sums, user_id, sphere, c) ==
    get_last_summarization(sums, user_id, sphere) # 0 /\ ~c.detached_ok

\* summarize asking for the compression before it looks at the thresholds
summarize_eager(msgs, sums, clock, user_id, sphere, c) ==
    IF last_sum_read_raises(sums, user_id, sphere, c)
    THEN [summaries |-> sums, now |-> clock, gen |-> 1, raised |-> TRUE,
          result |-> Null]
    ELSE IF ~c.sum_ok
    THEN [summaries |-> sums, now |-> clock, gen |-> 1, raised |-> TRUE,
          result |-> Null]
    ELSE IF ~should_summarize(msgs, sums, user_id, sphere)
    THEN [summaries |-> sums, now |-> clock, gen |-> 1, raised |-> FALSE,
          result |-> Null]
    ELSE IF get_messages_since_last_summarization(msgs, sums, user_id, sphere) = <<>>
    THEN [summaries |-> sums, now |-> clock, gen |-> 1, raised |-> FALSE,
          result |-> Null]
    ELSE [summaries |-> Append(sums, [id |-> Len(sums) + 1,
                                      user_id |-> user_id,
                                      sphere |-> sphere,
                                      text |-> c.sum_text,
                                      created_at |-> clock]),
          now |-> clock + 1, gen |-> 1, raised |-> FALSE,
          result |-> c.sum_text]

\* summarize stamping its Summary with the start of time
summarize_unstamped(msgs, sums, clock, user_id, sphere, c) ==
    IF last_sum_read_raises(sums, user_id, sphere, c)
    THEN [summaries |-> sums, now |-> clock, gen |-> 0, raised |-> TRUE,
          result |-> Null]
    ELSE IF ~should_summarize(msgs, sums, user_id, sphere)
    THEN [summaries |-> sums, now |-> clock, gen |-> 0, raised |-> FALSE,
          result |-> Null]
    ELSE IF get_messages_since_last_summarization(msgs, sums, user_id, sphere) = <<>>
    THEN [summaries |-> sums, now |-> clock, gen |-> 0, raised |-> FALSE,
          result |-> Null]
    ELSE IF ~c.sum_ok
    THEN [summaries |-> sums, now |-> clock, gen |-> 1, raised |-> TRUE,
          result |-> Null]
    ELSE [summaries |-> Append(sums, [id |-> Len(sums) + 1,
                                      user_id |-> user_id,
                                      sphere |-> sphere,
                                      text |-> c.sum_text,
                                      created_at |-> 0]),
          now |-> clock + 1, gen |-> 1, raised |-> FALSE,
          result |-> c.sum_text]

\* summarize.  c.sum_ok / c.sum_text: what generate_response does when asked
\* to compress.  The result: the table, the clock, the calls made, whether
\* the call raised, and the value returned (Null for None).
summarize(msgs, sums, clock, user_id, sphere, c) ==
    IF last_sum_read_raises(sums, user_id, sphere, c)
    THEN [summaries |-> sums, now |-> clock, gen |-> 0, raised |-> TRUE,
          result |-> Null]
    ELSE IF ~should_summarize(msgs, sums, user_id, sphere)
    THEN [summaries |-> sums, now |-> clock, gen |-> 0, raised |-> FALSE,
          result |-> Null]
    ELSE IF get_messages_since_last_summarization(msgs, sums, user_id, sphere) = <<>>
    THEN [summaries |-> sums, now |-> clock, gen |-> 0, raised |-> FALSE,
          result |-> Null]
    ELSE IF ~c.sum_ok
    THEN [summaries |-> sums, now |-> clock, gen |-> 1, raised |-> TRUE,
          result |-> Null]
    ELSE [summaries |-> Append(sums, [id |-> Len(sums) + 1,
                                      user_id |-> user_id,
                                      sphere |-> sphere,
                                      text |-> c.sum_text,
                                      created_at |-> clock]),
          now |-> clock + 1, gen |-> 1, raised |-> FALSE,
          result |-> c.sum_text]

-----------------------------------------------------------------------------
(* The chat path (src/bot/handlers/chat.py).                               *)

\* ChatHandler._user_has_all_curators
_user_has_all_curators(t, u) ==
    IF u \notin DOMAIN t
    THEN FALSE
    ELSE AllTruthy({t[u].selected[s] : s \in Spheres})

\* ChatHandler._get_user_curator
_get_user_curator(t, u, sphere) ==
    IF u \notin DOMAIN t THEN Null
    ELSE IF sphere \in Spheres THEN t[u].selected[sphere]
    ELSE Null

\* Message(...) added to the session: the row as committed
NewMessage(msgs, clock, user_id, sphere, role, content) ==
    [id |-> Len(msgs) + 1, user_id |-> user_id, sphere |-> sphere,
     role |-> role, content |-> content, created_at |-> clock]

\* what a chat handler did to the whole store
ChatDone(t, msgs, sums, clock, replies, gen) ==
    [users |-> t, messages |-> msgs, summaries |-> sums, now |-> clock,
     replies |-> replies, gen |-> gen]

\* the sphere detection with the default sphere given inside topics too
resolve_sphere_default_in_topics(t, u, m) ==
    LET named  == IF TruthyId(m.thread_id) /\ m.topic # <<>>
                  THEN detect_sphere_from_topic(m.topic) ELSE Null
        t1     == IF Truthy(named)
                  THEN update_user_thread(t, u, named, m.thread_id, m.chat_id)
                  ELSE t
        stored == IF Truthy(named) THEN named
                  ELSE get_sphere_by_thread(t1, u, m.chat_id, m.thread_id)
    IN  [users |-> t1, sphere |-> IF Truthy(stored) THEN stored ELSE "center"]

\* the sphere detection that stores the chat of every message in a topic,
\* whether or not the topic's name detects a sphere
resolve_sphere_records_chat(t, u, m) ==
    LET named  == IF TruthyId(m.thread_id) /\ m.topic # <<>>
                  THEN detect_sphere_from_topic(m.topic) ELSE Null
        t1     == IF TruthyId(m.thread_id)
                  THEN update_user_thread(t, u, named, m.thread_id, m.chat_id)
                  ELSE t
        stored == IF TruthyId(m.thread_id) /\ ~Truthy(named)
                  THEN get_sphere_by_thread(t1, u, m.chat_id, m.thread_id)
                  ELSE named
    IN  [users |-> t1,
         sphere |-> IF ~Truthy(stored) /\ ~TruthyId(m.thread_id)
                    THEN "center" ELSE stored]

\* the sphere detection of handle_text_message (lines 78-99): the table
\* after a possible update_user_thread, and the sphere or Null.
\* m = [chat_id, thread_id, topic]: topic is the name carried by
\* reply_to_message.forum_topic_created, <<>> when there is none.
resolve_sphere(t, u, m) ==
    LET named    == IF TruthyId(m.thread_id) /\ m.topic # <<>>
                    THEN detect_sphere_from_topic(m.topic) ELSE Null
        t1       == IF Truthy(named)
                    THEN update_user_thread(t, u, named, m.thread_id, m.chat_id)
                    ELSE t
        stored   == IF TruthyId(m.thread_id) /\ ~Truthy(named)
                    THEN get_sphere_by_thread(t1, u, m.chat_id, m.thread_id)
                    ELSE named
        sphere   == IF ~Truthy(stored) /\ ~TruthyId(m.thread_id)
                    THEN "center" ELSE stored
    IN  [users |-> t1, sphere |-> sphere]

\* handle_text_message without the two curator checks
handle_text_message_unchecked(t, msgs, sums, clock, u, m, text, c) ==
    LET r       == resolve_sphere(t, u, m)
        sphere  == r.sphere
        t2      == get_or_create_user(r.users, u)
        m1      == Append(msgs, NewMessage(msgs, clock, t2[u].id, sphere,
                                           "user", text))
        m2      == Append(m1, NewMessage(m1, clock + 1, t2[u].id, sphere,
                                         "assistant", c.text))
    IN  IF ~Truthy(sphere)
        THEN ChatDone(r.users, msgs, sums, clock, <<Reply("sphere_undetermined")>>, 0)
        ELSE ChatDone(t2, m2, sums, clock + 2,
                      <<TextReply("assistant_reply", c.text)>>, 1)

\* handle_text_message keeping only the latest exchange of a conversation
handle_text_message_latest_only(t, msgs, sums, clock, u, m, text, c) ==
    IF ~_user_has_all_curators(t, u)
    THEN ChatDone(t, msgs, sums, clock, <<Reply("select_curators")>>, 0)
    ELSE
    LET r       == resolve_sphere(t, u, m)
        t1      == r.users
        sphere  == r.sphere
        curator == _get_user_curator(t1, u, sphere)
    IN  IF ~Truthy(sphere)
        THEN ChatDone(t1, msgs, sums, clock, <<Reply("sphere_undetermined")>>, 0)
        ELSE IF ~Truthy(curator)
        THEN ChatDone(t1, msgs, sums, clock, <<Reply("curator_missing")>>, 0)
        ELSE
        LET t2 == get_or_create_user(t1, u)
            user_id == t2[u].id
        IN  IF ~c.prompt_ok
            THEN ChatDone(t2, msgs, sums, clock, <<Reply("chat_error")>>, 0)
            ELSE IF ~c.gen_ok
            THEN ChatDone(t2, msgs, sums, clock, <<Reply("chat_error")>>, 1)
            ELSE
            LET m0 == SelectSeq(msgs, LAMBDA row : ~(row.user_id = user_id
                                                      /\ row.sphere = sphere))
                m1 == Append(m0, NewMessage(m0, clock, user_id, sphere,
                                            "user", text))
                m2 == Append(m1, NewMessage(m1, clock + 1, user_id, sphere,
                                            "assistant", c.text))
                sm == summarize(m2, sums, clock + 2, user_id, sphere, c)
            IN  ChatDone(t2, m2, sm.summaries, sm.now,
                         <<TextReply("assistant_reply", c.text)>>,
                         1 + sm.gen)

\* handle_text_message.  c is what the environment does during the turn:
\* c.prompt_ok (the curator's prompt file loads), c.gen_ok / c.text
\* (generate_response), c.sum_ok / c.sum_text (the compression call).
handle_text_message(t, msgs, sums, clock, u, m, text, c) ==
    IF ~_user_has_all_curators(t, u)
    THEN ChatDone(t, msgs, sums, clock, <<Reply("select_curators")>>, 0)
    ELSE
    LET r       == resolve_sphere(t, u, m)
        t1      == r.users
        sphere  == r.sphere
        curator == _get_user_curator(t1, u, sphere)
    IN  IF ~Truthy(sphere)
        THEN ChatDone(t1, msgs, sums, clock, <<Reply("sphere_undetermined")>>, 0)
        ELSE IF ~Truthy(curator)
        THEN ChatDone(t1, msgs, sums, clock, <<Reply("curator_missing")>>, 0)
        ELSE
        LET t2 == get_or_create_user(t1, u)
            user_id == t2[u].id
        IN  IF ~c.prompt_ok
            THEN ChatDone(t2, msgs, sums, clock, <<Reply("chat_error")>>, 0)
            ELSE IF ~c.gen_ok
            THEN ChatDone(t2, msgs, sums, clock, <<Reply("chat_error")>>, 1)
            ELSE
            LET m1 == Append(msgs, NewMessage(msgs, clock, user_id, sphere,
                                              "user", text))
                m2 == Append(m1, NewMessage(m1, clock + 1, user_id, sphere,
                                            "assistant", c.text))
                sm == summarize(m2, sums, clock + 2, user_id, sphere, c)
            IN  ChatDone(t2, m2, sm.summaries, sm.now,
                         <<TextReply("assistant_reply", c.text)>>,
                         1 + sm.gen)

\* the variant of process_transcribed_text that relies on the check of the
\* voice handler (business, soul and body) instead of making its own
process_transcribed_text_voice_check(t, msgs, sums, clock, u, m, text, c) ==
    IF u \notin DOMAIN t
          \/ ~AllTruthy({t[u].selected[s] : s \in {"business", "soul", "body"}})
    THEN ChatDone(t, msgs, sums, clock, <<Reply("select_curators")>>, 0)
    ELSE handle_text_message_unchecked(t, msgs, sums, clock, u, m, text, c)

\* process_transcribed_text: the copy of the chat path used for voice
process_transcribed_text(t, msgs, sums, clock, u, m, text, c) ==
    IF ~_user_has_all_curators(t, u)
    THEN ChatDone(t, msgs, sums, clock, <<Reply("select_curators")>>, 0)
    ELSE
    LET named   == IF TruthyId(m.thread_id) /\ m.topic # <<>>
                   THEN detect_sphere_from_topic(m.topic) ELSE Null
        t1      == IF Truthy(named)
                   THEN update_user_thread(t, u, named, m.thread_id, m.chat_id)
                   ELSE t
        stored  == IF TruthyId(m.thread_id) /\ ~Truthy(named)
                   THEN get_sphere_by_thread(t1, u, m.chat_id, m.thread_id)
                   ELSE named
        sphere  == IF ~Truthy(stored) /\ ~TruthyId(m.thread_id)
                   THEN "center" ELSE stored
        curator == _get_user_curator(t1, u, sphere)
    IN  IF ~Truthy(sphere)
        THEN ChatDone(t1, msgs, sums, clock, <<Reply("sphere_undetermined")>>, 0)
        ELSE IF ~Truthy(curator)
        THEN ChatDone(t1, msgs, sums, clock, <<Reply("curator_missing")>>, 0)
        ELSE
        LET t2 == get_or_create_user(t1, u)
            user_id == t2[u].id
        IN  IF ~c.prompt_ok
            THEN ChatDone(t2, msgs, sums, clock, <<Reply("chat_error")>>, 0)
            ELSE IF ~c.gen_ok
            THEN ChatDone(t2, msgs, sums, clock, <<Reply("chat_error")>>, 1)
            ELSE
            LET m1 == Append(msgs, NewMessage(msgs, clock, user_id, sphere,
                                              "user", text))
                m2 == Append(m1, NewMessage(m1, clock + 1, user_id, sphere,
                                            "assistant", c.text))
                sm == summarize(m2, sums, clock + 2, user_id, sphere, c)
            IN  ChatDone(t2, m2, sm.summaries, sm.now,
                         <<TextReply("assistant_reply", c.text)>>,
                         1 + sm.gen)

-----------------------------------------------------------------------------
(* Voice messages (src/bot/handlers/voice.py).                             *)

\* VoiceHandler._user_has_all_curators: business, soul and body only
voice_user_has_all_curators(t, u) ==
    IF u \notin DOMAIN t
    THEN FALSE
    ELSE AllTruthy({t[u].selected[s] : s \in {"business", "soul", "body"}})

\* handle_voice_message.  v is the voice input: v.too_long (duration over
\* MAX_DURATION_SECONDS), v.ok (transcribe_audio returns), v.text.
handle_voice_message(t, msgs, sums, clock, u, m, v, c) ==
    IF ~voice_user_has_all_curators(t, u)
    THEN ChatDone(t, msgs, sums, clock, <<Reply("select_curators")>>, 0)
    ELSE IF v.too_long
    THEN ChatDone(t, msgs, sums, clock, <<Reply("voice_too_long")>>, 0)
    ELSE IF ~v.ok
    THEN ChatDone(t, msgs, sums, clock,
                  <<Reply("voice_processing"), Reply("voice_error")>>, 0)
    ELSE IF v.text = ""
    THEN ChatDone(t, msgs, sums, clock,
                  <<Reply("voice_processing"), Reply("voice_empty")>>, 0)
    ELSE LET r == process_transcribed_text(t, msgs, sums, clock, u, m, v.text, c)
         IN  [r EXCEPT !.replies = <<Reply("voice_processing"),
                                     TextReply("transcribed", v.text)>> \o @]

-----------------------------------------------------------------------------
(* The selection web form (src/webapp/app.py).                             *)

\* CURATORS: the ids offered for each sphere
CURATORS ==
    [ business |-> {"plan", "vibe", "sandberg", "chehov", "belford"},
      soul     |-> {"plan", "vibe", "markaryan", "osho", "avrelii"},
      body     |-> {"plan", "vibe", "arnold", "brus", "krishna"} ]

\* select_curator: the table after POST /api/select-curator
select_curator(t, u, sphere, curator) ==
    IF sphere \notin DOMAIN CURATORS THEN t
    ELSE IF curator \notin CURATORS[sphere] THEN t
    ELSE IF u \notin DOMAIN t THEN t
    ELSE [t EXCEPT ![u].selected[sphere] = curator]

-----------------------------------------------------------------------------
(* Commands (src/bot/handlers/commands.py) and the update routing of       *)
(* SborkaBot (src/bot/main.py).                                            *)

\* start_command
start_command(t, u) ==
    LET t1 == get_or_create_user(t, u)
    IN  IF t1[u].is_onboarding \/ ~Truthy(t1[u].psychotype)
        THEN LET s == start_onboarding(t1, u)
             IN  Done(s.users, <<Reply("welcome")>> \o s.replies, s.gen)
        ELSE Done(t1, <<Reply("welcome_back")>>, 0)

\* psychotype_command
psychotype_command(t, u) ==
    LET s == start_onboarding(t, u)
    IN  Done(s.users, <<Reply("restart_notice")>> \o s.replies, s.gen)

\* curators_command
curators_command(t, u) ==
    IF u \notin DOMAIN t
    THEN Done(t, <<Reply("take_test_first")>>, 0)
    ELSE IF t[u].is_onboarding
    THEN Done(t, <<Reply("finish_test_first")>>, 0)
    ELSE Done(t, <<Reply("choose_curators")>>, 0)

\* help_command
help_command(t, u) == Done(t, <<Reply("help")>>, 0)

\* _handle_callback.  d.onboard: the data starts with "onboard_";
\* d.answer: the data with "onboard_" removed.
_handle_callback(t, u, d, o) ==
    IF d.onboard
    THEN handle_answer(t, u, d.answer, o)
    ELSE Done(t, <<Reply("unknown_callback")>>, 0)

\* _handle_message
_handle_message(t, msgs, sums, clock, u, m, text, c) ==
    IF is_user_onboarding(t, u)
    THEN ChatDone(t, msgs, sums, clock, <<Reply("finish_test_first")>>, 0)
    ELSE handle_text_message(t, msgs, sums, clock, u, m, text, c)

\* _handle_voice
_handle_voice(t, msgs, sums, clock, u, m, v, c) ==
    IF is_user_onboarding(t, u)
    THEN ChatDone(t, msgs, sums, clock, <<Reply("finish_test_first")>>, 0)
    ELSE handle_voice_message(t, msgs, sums, clock, u, m, v, c)

-----------------------------------------------------------------------------
(* What the environment can send and answer.                               *)

Restrict(f, K) == [k \in K |-> f[k]]

\* texts the generation capability returns
GenTexts == {"gen1"}

\* a parsed recommendation naming every sphere
FullDict == [s \in Spheres |-> IF s \in {"center", "soul"} THEN "plan" ELSE "vibe"]

\* parsed JSON objects the recommendation call can return: complete ones
\* (two with a null value) and ones that lack keys
JsonDicts ==
    {FullDict, [FullDict EXCEPT !["soul"] = Null],
     [FullDict EXCEPT !["center"] = Null]}
        \cup {Restrict(FullDict, Spheres \ {s}) : s \in Spheres}
        \cup {Restrict(FullDict, {})}

\* the two generation calls of _complete_onboarding
ClassOutcomes ==
    {[psy_ok |-> FALSE, psy |-> Null, json_ok |-> FALSE, rec |-> Restrict(FullDict, {})]}
        \cup {[psy_ok |-> TRUE, psy |-> p, json_ok |-> FALSE, rec |-> Restrict(FullDict, {})] :
                 p \in GenTexts}
        \cup {[psy_ok |-> TRUE, psy |-> p, json_ok |-> TRUE, rec |-> d] :
                 p \in GenTexts, d \in JsonDicts}

\* the environment of one chat turn: everything succeeds, or the prompt
\* file fails to load, or generation raises, or the compression call raises
\* (detached_ok: see last_sum_read_raises)
ChatOk == [prompt_ok |-> TRUE, gen_ok |-> TRUE, text |-> "gen1",
           sum_ok |-> TRUE, sum_text |-> "gen1", detached_ok |-> TRUE]
ChatOutcomes ==
    {ChatOk,
     [ChatOk EXCEPT !.prompt_ok = FALSE],
     [ChatOk EXCEPT !.gen_ok = FALSE],
     [ChatOk EXCEPT !.sum_ok = FALSE]}

\* callback data
CallbackData ==
    {[onboard |-> TRUE, answer |-> l] : l \in Letters}
        \cup {[onboard |-> FALSE, answer |-> ""]}

\* a topic name that holds a keyword
TopicDusha == <<"D", "u", "sh", "a">>

\* where a message arrives: chat, thread (NoId outside topics) and the name
\* of the topic when the message carries its creation record
Inbound ==
    [chat_id : {10, 20}, thread_id : {NoId, 1}, topic : {<<>>, TopicDusha}]

UserTexts == {"hello"}

\* voice inputs: too long, transcription raises, transcription is empty,
\* transcription succeeds
VoiceOk == [too_long |-> FALSE, ok |-> TRUE, text |-> "hello"]
VoiceInputs ==
    {VoiceOk,
     [VoiceOk EXCEPT !.too_long = TRUE],
     [VoiceOk EXCEPT !.ok = FALSE],
     [VoiceOk EXCEPT !.text = ""]}

\* a voice message and the environment of its turn (which matters only
\* when the transcription succeeds)
VoiceTurns ==
    {[v |-> v, c |-> ChatOk] : v \in VoiceInputs}
        \cup {[v |-> VoiceOk, c |-> c] : c \in ChatOutcomes}

\* requests of the web form
WebSpheres == {"soul", "center"}
WebCurators == {"osho", "arnold"}

-----------------------------------------------------------------------------
(* The state machine.                                                      *)

\* no helper call is under observation
NoCall == [fn |-> "none"]

Init ==
    /\ users = <<>>
    /\ messages = <<>>
    /\ summaries = <<>>
    /\ now = 0
    /\ skip \in BOOLEAN
    /\ last = [op |-> "init", user |-> 0, created |-> FALSE,
               replies |-> <<>>, gen |-> 0]
    /\ call = NoCall

\* the record of a handled event: the handler (op), the user it was for,
\* whether it inserted the user's row, what it sent and the number of
\* calls it made to the generation capability
Observed(op, u, r) ==
    [op |-> op, user |-> u,
     created |-> (u \notin DOMAIN users /\ u \in DOMAIN r.users),
     replies |-> r.replies, gen |-> r.gen]

\* a handler that touches only table "users"
Handled(op, u, r) ==
    /\ users' = r.users
    /\ last' = Observed(op, u, r)
    /\ UNCHANGED <<messages, summaries, now, skip, call>>

\* what a chat handler leaves in the store
ChatStored(op, u, r) ==
    /\ Len(r.messages) <= 2 * MaxTurns
    /\ users' = r.users
    /\ messages' = r.messages
    /\ summaries' = r.summaries
    /\ now' = r.now
    /\ last' = Observed(op, u, r)
    /\ UNCHANGED skip

\* a chat handler
ChatHandled(op, u, r) ==
    /\ ChatStored(op, u, r)
    /\ UNCHANGED call

StartCommand(u) == Handled("start", u, start_command(users, u))

PsychotypeCommand(u) == Handled("psychotype", u, psychotype_command(users, u))

CuratorsCommand(u) == Handled("curators", u, curators_command(users, u))

HelpCommand(u) == Handled("help", u, help_command(users, u))

Callback(u) ==
    \E d \in CallbackData, o \in ClassOutcomes :
        LET r == _handle_callback(users, u, d, o)
        IN  /\ u \in DOMAIN r.users =>
                  r.users[u].onboarding_step <= NumQuestions + MaxOverrun
            /\ Handled(IF d.onboard THEN "answer" ELSE "callback", u, r)

TextMessage(u) ==
    \E m \in Inbound, x \in UserTexts, c \in ChatOutcomes :
        ChatHandled("text", u,
                    _handle_message(users, messages, summaries, now, u, m, x, c))

VoiceMessage(u) ==
    \E m \in Inbound, vc \in VoiceTurns :
        ChatHandled("voice", u,
                    _handle_voice(users, messages, summaries, now, u, m, vc.v, vc.c))

WebSelectCurator(u) ==
    \E s \in WebSpheres, k \in WebCurators :
        Handled("select_curator", u,
                Done(select_curator(users, u, s, k), <<>>, 0))

Next ==
    \E u \in Users :
        \/ StartCommand(u)
        \/ PsychotypeCommand(u)
        \/ CuratorsCommand(u)
        \/ HelpCommand(u)
        \/ Callback(u)
        \/ TextMessage(u)
        \/ VoiceMessage(u)
        \/ WebSelectCurator(u)

Spec == Init /\ [][Next]_vars

-----------------------------------------------------------------------------
(* Properties.                                                             *)

\* the last handled event sent a message of this kind
Sent(kind) == \E i \in DOMAIN last.replies : last.replies[i].kind = kind

\* the same, of the event handled by the step being taken
SentNext(kind) == \E i \in DOMAIN last'.replies : last'.replies[i].kind = kind

\* the last handled event ran start_onboarding
Restarted == last.op = "psychotype" \/ (last.op = "start" /\ Sent("welcome"))

\* the step being taken runs start_onboarding for u
Restarts(u) ==
    /\ last'.user = u
    /\ last'.op = "psychotype" \/ (last'.op = "start" /\ SentNext("welcome"))

\* the row shows a freshly started questionnaire
FreshOnboarding(row) ==
    /\ row.is_onboarding
    /\ row.onboarding_step = 0
    /\ row.onboarding_answers = <<>>

\* C1: restarting onboarding (start_onboarding) from any reachable state of
\* the table, for any user and at any step, leaves the profile with
\* is_onboarding = true, onboarding_step = 0 and no answers, and restarting
\* a second time changes nothing more; the state left by a /start or
\* /psychotype that restarted shows exactly that.
C1_RestartResets ==
    /\ \A u \in Users :
          LET once  == start_onboarding(users, u).users
              twice == start_onboarding(once, u).users
          IN  FreshOnboarding(once[u]) /\ twice = once
    /\ Restarted => FreshOnboarding(users[last.user])

\* a /psychotype restart of a user whose earlier onboarding had completed
C1_Witness ==
    /\ last.op = "psychotype"
    /\ ~last.created
    /\ Truthy(users[last.user].selected["center"])

\* C2 (as stated): in any step with is_onboarding true before and after,
\* onboarding_step does not decrease.
C2_StepNeverDecreases ==
    [][\A u \in DOMAIN users :
          (users[u].is_onboarding /\ users'[u].is_onboarding)
              => users'[u].onboarding_step >= users[u].onboarding_step]_vars

\* C2 (amended): in any step with is_onboarding true before and after,
\* onboarding_step does not decrease unless the step is a restart
\* (start_onboarding), which sets it to 0.
C2_StepDecreasesOnlyOnRestart ==
    [][\A u \in DOMAIN users :
          (users[u].is_onboarding /\ users'[u].is_onboarding)
              => IF Restarts(u)
                 THEN users'[u].onboarding_step = 0
                 ELSE users'[u].onboarding_step >= users[u].onboarding_step]_vars

\* an accepted answer has moved a user, still in onboarding, to a later step
C2_Witness ==
    /\ last.op = "answer"
    /\ last.user \in DOMAIN users
    /\ users[last.user].is_onboarding
    /\ users[last.user].onboarding_step >= 1
    /\ Sent("question")

\* C3: whenever is_onboarding changes from true to false, onboarding_step
\* equals the number of questions.
C3_DoneExactlyAtQuestionCount ==
    [][\A u \in DOMAIN users :
          (users[u].is_onboarding /\ ~users'[u].is_onboarding)
              => users'[u].onboarding_step = NumQuestions]_vars

\* C4: an answer submitted while onboarding_step >= the question count is
\* rejected: no answer is appended, the step is not incremented and the
\* completion is not run again.
C4_AnswerPastLastQuestionRejected ==
    [][\A u \in DOMAIN users :
          (last'.op = "answer" /\ last'.user = u
             /\ users[u].onboarding_step >= NumQuestions)
              => /\ users'[u] = users[u]
                 /\ ~SentNext("processing")
                 /\ last'.gen = 0]_vars

\* C5: an answer submitted for a user whose is_onboarding is false is
\* answered with the advisory message only and changes nothing: the whole
\* profile is unchanged and no generation call is made.
C5_AnswerAfterDoneChangesNothing ==
    [][\A u \in DOMAIN users :
          (last'.op = "answer" /\ last'.user = u /\ ~users[u].is_onboarding)
              => /\ users' = users
                 /\ last'.replies = <<Reply("already_passed")>>
                 /\ last'.gen = 0]_vars

\* an answer callback of a user who had finished onboarding was handled
C5_Witness ==
    /\ last.op = "answer"
    /\ last.user \in DOMAIN users
    /\ ~users[last.user].is_onboarding
    /\ Sent("already_passed")

\* C6: when the completion succeeds, the profile has is_onboarding = false,
\* psychotype = the profile summary, and for each of the four spheres
\* selected = recommended = the value the classification gave for it (the
\* fixed values under the skip flag).
C6_CompletionCommitsClassification ==
    [][\A u \in DOMAIN users :
          (users[u].is_onboarding /\ ~users'[u].is_onboarding)
              => \E psy \in GenTexts \cup {SkipPsychotype},
                    rec \in JsonDicts \cup {SkipRecommendations} :
                    /\ skip <=> (psy = SkipPsychotype /\ rec = SkipRecommendations)
                    /\ HasRequiredFields(rec)
                    /\ users'[u].psychotype = psy
                    /\ \A s \in Spheres :
                          /\ users'[u].recommended[s] = rec[s]
                          /\ users'[u].selected[s] = rec[s]
                    /\ SentNext("test_done")]_vars

\* a completion with real generation calls has succeeded
C6_Witness ==
    /\ ~skip
    /\ last.op = "answer"
    /\ last.user \in DOMAIN users
    /\ Sent("test_done")
    /\ last.gen = 2
    /\ ~users[last.user].is_onboarding

\* C7: when the classification step of the completion fails (a key is
\* missing or a generation call raises), psychotype, every recommended and
\* selected field and is_onboarding keep their values, and the user stays
\* in onboarding.
C7_FailedCompletionCommitsNothing ==
    [][\A u \in DOMAIN users :
          (last'.op = "answer" /\ last'.user = u /\ SentNext("completion_error"))
              => /\ users'[u].psychotype = users[u].psychotype
                 /\ users'[u].recommended = users[u].recommended
                 /\ users'[u].selected = users[u].selected
                 /\ users'[u].is_onboarding = users[u].is_onboarding
                 /\ users'[u].is_onboarding]_vars

\* a completion has failed after both generation calls were made, for a
\* user who holds the curators of an earlier completion
C7_Witness ==
    /\ last.op = "answer"
    /\ last.user \in DOMAIN users
    /\ Sent("completion_error")
    /\ last.gen = 2
    /\ Truthy(users[last.user].recommended["body"])

C9_OnboardingGatesChat ==
    [][\A u \in Users :
          (last'.op \in {"text", "voice"} /\ last'.user = u
             /\ (u \notin DOMAIN users \/ users[u].is_onboarding))
              => /\ last'.gen = 0
                 /\ messages' = messages
                 /\ summaries' = summaries
                 /\ users' = users
                 /\ last'.replies = <<Reply("finish_test_first")>>]_vars

\* a message was turned away from a user in onboarding who has every
\* curator selected
C9_Witness ==
    /\ last.op \in {"text", "voice"}
    /\ last.user \in DOMAIN users
    /\ users[last.user].is_onboarding
    /\ _user_has_all_curators(users, last.user)
    /\ Sent("finish_test_first")

\* the events of the bot (the web form is not one)
BotOps == {"start", "psychotype", "curators", "help", "answer", "callback",
           "text", "voice"}

-----------------------------------------------------------------------------
(* Chat in forum topics: the bot used in groups whose topics carry names.  *)
(* A message written in a topic carries the topic's thread id and, unless  *)
(* it replies to another message, the record of the topic's creation with  *)
(* the name given then (reply_to_message.forum_topic_created, chat.py      *)
(* lines 84-85).                                                           *)

\* a second topic for the soul in the same group as TopicDusha
TopicDusha2 == <<"d", "u", "sh", "a", "2">>
\* a topic for business
TopicDelo == <<"D", "e", "l", "o">>
\* a topic whose name holds no keyword
TopicOther == <<"x">>

\* the groups (chat ids) and their topics (thread ids), each with the name
\* it was created with; thread ids are counted per group
ForumChats == {10, 20}
ForumThreads == {1, 2}
ForumTopics ==
    [p \in ForumChats \X ForumThreads |->
        CASE p = <<10, 1>> -> TopicDusha
          [] p = <<10, 2>> -> TopicDusha2
          [] p = <<20, 1>> -> TopicDelo
          [] p = <<20, 2>> -> TopicOther]

\* a message in a topic that carries the creation record
InTopic(p) == [chat_id |-> p[1], thread_id |-> p[2], topic |-> ForumTopics[p]]
\* a message in a topic that replies to another message (no record)
ReplyInTopic(p) == [chat_id |-> p[1], thread_id |-> p[2], topic |-> <<>>]
\* a message outside the topics
Direct(ch) == [chat_id |-> ch, thread_id |-> NoId, topic |-> <<>>]

\* the messages the user sends
ForumInbound ==
    {Direct(10)}
        \cup {InTopic(p) : p \in ForumChats \X ForumThreads}
        \cup {ReplyInTopic(<<10, 1>>), ReplyInTopic(<<20, 1>>)}

\* the kinds of reply that a handler sends once it has resolved, or failed
\* to resolve, the sphere
PastCuratorCheck ==
    {"sphere_undetermined", "curator_missing", "chat_error", "assistant_reply"}

\* the topics bound so far through their name, after message m was handled
\* with result r: update_user_thread is called iff the handler gets past
\* the curator check with a name that detects a sphere
BoundAfter(bound, m, r) ==
    IF /\ \E i \in DOMAIN r.replies : r.replies[i].kind \in PastCuratorCheck
       /\ TruthyId(m.thread_id)
       /\ Truthy(detect_sphere_from_topic(m.topic))
    THEN bound \cup {<<m.chat_id, m.thread_id>>}
    ELSE bound

ForumInit ==
    /\ users = <<>>
    /\ messages = <<>>
    /\ summaries = <<>>
    /\ now = 0
    /\ skip = FALSE
    /\ last = [op |-> "init", user |-> 0, created |-> FALSE,
               replies |-> <<>>, gen |-> 0]
    /\ call = [fn |-> "none", bound |-> {}]

\* a chat handler, with the message it handled under observation
ForumHandled(op, fn, u, m, r) ==
    /\ ChatStored(op, u, r)
    /\ call' = [fn |-> fn, m |-> m, bound |-> BoundAfter(call.bound, m, r)]

ForumText(u) ==
    \E m \in ForumInbound, x \in UserTexts, c \in ChatOutcomes :
        ForumHandled("text", "handle_text_message", u, m,
                     _handle_message(users, messages, summaries, now, u, m, x, c))

ForumVoice(u) ==
    \E m \in ForumInbound, c \in ChatOutcomes :
        ForumHandled("voice", "handle_voice_message", u, m,
                     _handle_voice(users, messages, summaries, now, u, m, VoiceOk, c))

ForumNext ==
    \E u \in Users :
        \/ StartCommand(u)
        \/ Callback(u)
        \/ ForumText(u)
        \/ ForumVoice(u)

ForumSpec == ForumInit /\ [][ForumNext]_vars

-----------------------------------------------------------------------------
(* Properties of the chat path.                                            *)

\* the step being taken handles a text or voice message of u
ChatStep(u) == last'.user = u /\ last'.op \in {"text", "voice"}

\* the Message rows the step being taken inserts
Inserted == SubSeq(messages', Len(messages) + 1, Len(messages'))

\* C11: the generation capability is invoked for a chat message of a user
\* in a sphere only if the user's selected curator of that sphere is set at
\* that time: a text or voice message that leads to a generation call comes
\* from a user whose curator of the sphere the message resolves to is set,
\* and every Message row stored for it carries that sphere.
C11_NoGenerationWithoutCurator ==
    [][\A u \in Users :
          (ChatStep(u) /\ last'.gen > 0)
              => /\ u \in DOMAIN users
                 /\ LET sphere == resolve_sphere(users, u, call'.m).sphere
                    IN  /\ sphere \in Spheres
                        /\ Truthy(users[u].selected[sphere])
                        /\ \A i \in DOMAIN Inserted : Inserted[i].sphere = sphere]_vars

\* a message in the topic of the soul, from a user who finished onboarding
\* without a curator for the soul, was turned away without a generation call
C11_Witness ==
    /\ last.op \in {"text", "voice"}
    /\ call.fn \in {"handle_text_message", "handle_voice_message"}
    /\ call.m = InTopic(<<10, 1>>)
    /\ last.user \in DOMAIN users
    /\ ~users[last.user].is_onboarding
    /\ ~Truthy(users[last.user].selected["soul"])
    /\ Sent("select_curators")
    /\ last.gen = 0
    /\ messages = <<>>

-----------------------------------------------------------------------------
(* detect_sphere_from_topic on its own: every name put together from at    *)
(* most MaxNameParts pieces is given to the function once.                 *)

\* the pieces: each keyword of the table in lower case and capitalised, a
\* keyword in capitals, a character of no keyword, a keyword with a letter
\* missing
NameParts ==
    {sphere_mapping[i].keyword : i \in DOMAIN sphere_mapping}
        \cup {TopicDusha, TopicDelo, <<"T", "e", "l", "o">>, <<"SH", "t", "a", "b">>}
        \cup {<<"D", "E", "L", "O">>, <<"x">>, <<"d", "u", "a">>}

RECURSIVE NamesOf(_)
NamesOf(n) ==
    IF n = 0
    THEN {<<>>}
    ELSE LET shorter == NamesOf(n - 1)
         IN  shorter \cup {a \o b : a \in shorter, b \in NameParts}

TopicNames == NamesOf(MaxNameParts)

DetectInit ==
    /\ users = <<>>
    /\ messages = <<>>
    /\ summaries = <<>>
    /\ now = 0
    /\ skip = FALSE
    /\ last = [op |-> "init", user |-> 0, created |-> FALSE,
               replies |-> <<>>, gen |-> 0]
    /\ \E n \in TopicNames :
          call = [fn |-> "detect_sphere_from_topic", topic_name |-> n,
                  returned |-> FALSE, result |-> Null]

\* the call returns
Detect ==
    /\ ~call.returned
    /\ call' = [call EXCEPT !.returned = TRUE,
                            !.result = detect_sphere_from_topic(call.topic_name)]
    /\ UNCHANGED <<users, messages, summaries, now, skip, last>>

DetectNext == Detect

DetectSpec == DetectInit /\ [][DetectNext]_vars

\* a and b are the same letter up to case
SameLetter(a, b) ==
    \/ a = b
    \/ a \in DOMAIN LowerOf /\ LowerOf[a] = b
    \/ b \in DOMAIN LowerOf /\ LowerOf[b] = a

\* the keyword occurs in the name, whatever the case of the name's letters
Occurs(keyword, name) ==
    \E i \in 1..Len(name) :
        /\ i + Len(keyword) - 1 <= Len(name)
        /\ \A j \in 1..Len(keyword) : SameLetter(name[i + j - 1], keyword[j])

\* the entries of the table, in table order, whose keyword occurs in the name
Matching(name) == {i \in 1..Len(sphere_mapping) : Occurs(sphere_mapping[i].keyword, name)}

\* C12: detect_sphere_from_topic(name) is the sphere of the first entry of
\* the table (soul, business, body, center in that order) whose keyword
\* occurs in name in any case, and none when name is empty or holds no
\* keyword; a name with keywords of several spheres gives the sphere of
\* the earliest entry.
C12_FirstKeywordOfTableWins ==
    call.fn = "detect_sphere_from_topic" /\ call.returned
        => LET hits == Matching(call.topic_name)
           IN  /\ hits = {} => call.result = Null
               /\ \A i \in hits :
                     (\A j \in hits : i <= j) => call.result = sphere_mapping[i].sphere
               /\ call.topic_name = <<>> => call.result = Null

\* a name in which the keyword of business comes before the keyword of the
\* soul, in capitals, was given the soul
C12_Witness ==
    /\ call.fn = "detect_sphere_from_topic"
    /\ call.returned
    /\ call.topic_name = <<"D", "E", "L", "O">> \o <<"x">> \o TopicDusha
    /\ call.result = "soul"

-----------------------------------------------------------------------------
(* Properties of sphere resolution.                                        *)

\* the step being taken handles a message of u and gets past the curator
\* check, so that the sphere is resolved
ResolvingStep(u) ==
    /\ ChatStep(u)
    /\ \E i \in DOMAIN last'.replies : last'.replies[i].kind \in PastCuratorCheck

\* the step being taken resolved the sphere s: it did not ask for another
\* topic, and the rows it stored carry s
RoutedTo(s) ==
    /\ ~SentNext("sphere_undetermined")
    /\ \A i \in DOMAIN Inserted : Inserted[i].sphere = s

\* the spheres whose stored binding is the topic of message m
BindingsOf(row, m) ==
    {s \in Spheres : /\ TruthyId(m.thread_id)
                     /\ row.chat_id = m.chat_id
                     /\ row.thread[s] = m.thread_id}

\* C13: the sphere of a message is resolved in strict priority order:
\* (1) a creation record whose name detects a sphere binds the topic to
\* that sphere and gives it; (2) otherwise a stored binding of the topic
\* gives its sphere and nothing is rebound; (3) otherwise a message outside
\* the topics gives center; (4) otherwise there is no sphere and the user
\* is asked to write in a proper topic.
C13_ResolutionPriority ==
    [][\A u \in Users :
          ResolvingStep(u)
              => LET m     == call'.m
                     named == detect_sphere_from_topic(m.topic)
                     bound == BindingsOf(users[u], m)
                 IN  IF Truthy(named)
                     THEN /\ RoutedTo(named)
                          /\ users'[u].chat_id = m.chat_id
                          /\ users'[u].thread[named] = m.thread_id
                     ELSE IF bound # {}
                     THEN /\ \E s \in bound : RoutedTo(s)
                          /\ users' = users
                     ELSE IF ~TruthyId(m.thread_id)
                     THEN /\ RoutedTo("center")
                          /\ users' = users
                     ELSE /\ SentNext("sphere_undetermined")
                          /\ Inserted = <<>>
                          /\ users' = users]_vars

\* a reply inside the bound topic of the soul, carrying no creation record,
\* was answered in the sphere of the soul
C13_Witness ==
    /\ last.op \in {"text", "voice"}
    /\ call.fn \in {"handle_text_message", "handle_voice_message"}
    /\ call.m = ReplyInTopic(<<10, 1>>)
    /\ Sent("assistant_reply")
    /\ messages # <<>>
    /\ messages[Len(messages)].sphere = "soul"
    /\ users[last.user].thread["soul"] = 1

\* C14: in every reachable state of a profile no two of thread_soul,
\* thread_body, thread_business, thread_center hold the same non-null
\* thread id, so that a topic is bound to at most one sphere.
C14_OneSpherePerTopic ==
    \A u \in DOMAIN users :
        \A s1, s2 \in Spheres :
            (s1 # s2 /\ TruthyId(users[u].thread[s1]))
                => users[u].thread[s1] # users[u].thread[s2]

-----------------------------------------------------------------------------
(* The two binding helpers on their own: update_user_thread and            *)
(* get_sphere_by_thread called with every sphere, thread and chat, from    *)
(* the profile of a user who has just been created.                        *)

ThreadInit ==
    /\ users = get_or_create_user(<<>>, 1)
    /\ messages = <<>>
    /\ summaries = <<>>
    /\ now = 0
    /\ skip = FALSE
    /\ last = [op |-> "init", user |-> 0, created |-> FALSE,
               replies |-> <<>>, gen |-> 0]
    /\ call = NoCall

\* update_user_thread(u, s, th, ch); the observer keeps the row as it was
\* and what a lookup of the topic gave before the call
UpdateUserThread(u) ==
    \E s \in Spheres, th \in ForumThreads, ch \in ForumChats :
        /\ users' = update_user_thread(users, u, s, th, ch)
        /\ call' = [fn |-> "update_user_thread", user |-> u, sphere |-> s,
                    thread_id |-> th, chat_id |-> ch,
                    row_before |-> users[u],
                    before |-> get_sphere_by_thread(users, u, ch, th)]
        /\ UNCHANGED <<messages, summaries, now, skip, last>>

\* get_sphere_by_thread(u, ch, th)
GetSphereByThread(u) ==
    \E th \in ForumThreads, ch \in ForumChats :
        /\ call' = [fn |-> "get_sphere_by_thread", user |-> u,
                    thread_id |-> th, chat_id |-> ch,
                    result |-> get_sphere_by_thread(users, u, ch, th)]
        /\ UNCHANGED <<users, messages, summaries, now, skip, last>>

ThreadNext ==
    \E u \in Users :
        \/ UpdateUserThread(u)
        \/ GetSphereByThread(u)

ThreadSpec == ThreadInit /\ [][ThreadNext]_vars

\* C15: when a topic bound to a sphere S1 is rebound to a different sphere
\* S2 (update_user_thread with the same chat and thread), a lookup of the
\* topic gives S2 afterwards, for every ordered pair of distinct spheres.
C15_RebindingOverwrites ==
    (/\ call.fn = "update_user_thread"
     /\ Truthy(call.before)
     /\ call.before # call.sphere)
        => get_sphere_by_thread(users, call.user, call.chat_id, call.thread_id)
               = call.sphere

\* C16: update_user_thread(user, S, thread, chat) on a profile that already
\* has chat_id = chat and thread_S = thread leaves the whole profile as it
\* was, and a second identical call after any call changes nothing more.
C16_RebindingSameSphereIsNoOp ==
    call.fn = "update_user_thread"
        => /\ (/\ call.row_before.chat_id = call.chat_id
               /\ call.row_before.thread[call.sphere] = call.thread_id)
                  => users[call.user] = call.row_before
           /\ update_user_thread(users, call.user, call.sphere,
                                 call.thread_id, call.chat_id) = users

\* the soul's topic was bound again to the soul, in the same chat, on a
\* profile that holds another binding too
C16_Witness ==
    /\ call.fn = "update_user_thread"
    /\ call.sphere = "soul"
    /\ call.row_before.chat_id = call.chat_id
    /\ call.row_before.thread["soul"] = call.thread_id
    /\ TruthyId(call.row_before.thread["business"])
    /\ users[call.user] = call.row_before

\* C18: get_sphere_by_thread gives none when the chat of the message is not
\* the chat stored in the profile, for every thread id, bound or not.
C18_OtherChatBindingNotHonored ==
    (/\ call.fn = "get_sphere_by_thread"
     /\ users[call.user].chat_id # call.chat_id)
        => call.result = Null

\* a lookup from another chat of a thread id that is bound gave none
C18_Witness ==
    /\ call.fn = "get_sphere_by_thread"
    /\ TruthyId(users[call.user].chat_id)
    /\ users[call.user].chat_id # call.chat_id
    /\ users[call.user].thread["soul"] = call.thread_id
    /\ call.result = Null

\* C17: once a topic has been bound to a sphere through its name, every
\* later message in that topic, with the creation record or without it, is
\* resolved to that same sphere, whatever the user sends in between.
C17_ResolutionStableOnceBound ==
    [][\A u \in Users :
          ResolvingStep(u)
              => \A p \in call.bound :
                    call'.m \in {InTopic(p), ReplyInTopic(p)}
                        => RoutedTo(detect_sphere_from_topic(ForumTopics[p]))]_vars

\* the guidance sent when no sphere is resolved or a curator is missing
Guidance == {"sphere_undetermined", "curator_missing", "select_curators"}

\* C19: a message for which no sphere is resolved, or for which the curator
\* check fails, is answered with guidance only and leaves the state as it
\* was: no generation call, no Message or Summary stored, and the profile
\* (bindings and chat_id included) unchanged.
C19_GuidanceLeavesStateUnchanged ==
    [][\A u \in Users :
          (ChatStep(u) /\ \E k \in Guidance : SentNext(k))
              => /\ last'.gen = 0
                 /\ messages' = messages
                 /\ summaries' = summaries
                 /\ users' = users
                 /\ ~SentNext("assistant_reply")]_vars

\* a message in a topic whose name holds no keyword and that no binding
\* covers, from a user with every curator and a binding in another chat,
\* was answered with the request to use a proper topic
C19_Witness ==
    /\ last.op \in {"text", "voice"}
    /\ call.fn \in {"handle_text_message", "handle_voice_message"}
    /\ call.m = InTopic(<<20, 2>>)
    /\ Sent("sphere_undetermined")
    /\ last.gen = 0
    /\ _user_has_all_curators(users, last.user)
    /\ users[last.user].chat_id = 10
    /\ users[last.user].thread["soul"] = 1

-----------------------------------------------------------------------------
(* should_summarize on its own.  The tables it reads are those that chat   *)
(* exchanges leave behind: each exchange stores the user's and the         *)
(* assistant's Message and then runs summarize (chat.py lines 137-168).    *)
(* should_summarize is called inside summarize, after the two rows of the  *)
(* current exchange are stored.                                            *)

\* the two Message rows of an exchange (chat.py lines 137-155)
store_exchange(msgs, clock, user_id, sphere, text, reply) ==
    LET m1 == Append(msgs, NewMessage(msgs, clock, user_id, sphere, "user", text))
    IN  Append(m1, NewMessage(m1, clock + 1, user_id, sphere, "assistant", reply))

\* a whole exchange on the tables tab = [messages, summaries, now]
Exchange(tab, user_id, sphere, c) ==
    LET m2 == store_exchange(tab.messages, tab.now, user_id, sphere, "hello", c.text)
        sm == summarize(m2, tab.summaries, tab.now + 2, user_id, sphere, c)
    IN  [messages |-> m2, summaries |-> sm.summaries, now |-> sm.now]

\* the tables after the exchanges of a script, one after the other
RECURSIVE RunScript(_, _)
RunScript(script, tab) ==
    IF script = <<>>
    THEN tab
    ELSE RunScript(Tail(script),
                   Exchange(tab, Head(script).user_id, Head(script).sphere,
                            Head(script).c))

\* the conversations: (user, sphere) of the conversation under study, of
\* another user in the same sphere, of the same user in another sphere
MainStream == [user_id |-> 1, sphere |-> "soul"]
SideStreams == {[user_id |-> 2, sphere |-> "soul"], [user_id |-> 1, sphere |-> "body"]}

\* the exchanges of the main conversation at which the compression call
\* raises: never, at the first attempt, at the first three, at the second
\* summary's first attempt, always
FailPatterns == {{}, {3}, {3, 4, 5}, {13}, 1..(MaxScriptTurns + 1)}

\* n exchanges of the main conversation (those from..to), failing as in F
MainTurns(from, to, F) ==
    [i \in 1..(to - from + 1) |->
        [user_id |-> MainStream.user_id, sphere |-> MainStream.sphere,
         c |-> IF (from + i - 1) \in F THEN [ChatOk EXCEPT !.sum_ok = FALSE]
               ELSE ChatOk]]

\* k exchanges of a side conversation
SideTurns(side, k) ==
    [i \in 1..k |-> [user_id |-> side.user_id, sphere |-> side.sphere, c |-> ChatOk]]

\* n main exchanges with k side exchanges stored after the first pos ones
Script(n, F, side, k, pos) ==
    LET cut == IF pos < n THEN pos ELSE n
    IN  MainTurns(1, cut, F) \o SideTurns(side, k) \o MainTurns(cut + 1, n, F)

Scripts ==
    {Script(n, F, side, k, pos) :
        n \in 0..MaxScriptTurns, F \in FailPatterns, side \in SideStreams,
        k \in 0..MaxSideTurns, pos \in {0, 3}}

\* a row of a user who finished onboarding with every curator
ChattingUser(id) ==
    save_classification([NewUser(id) EXCEPT !.onboarding_step = NumQuestions],
                        "gen1", FullDict)

\* the exchanges of a script in a build where reading the detached Summary
\* row yields the value (d) or raises (~d)
InBuild(script, d) ==
    [i \in DOMAIN script |-> [script[i] EXCEPT !.c.detached_ok = d]]

SummaryInit ==
    /\ users = (1 :> ChattingUser(1)) @@ (2 :> ChattingUser(2))
    /\ skip = FALSE
    /\ last = [op |-> "init", user |-> 0, created |-> FALSE,
               replies |-> <<>>, gen |-> 0]
    /\ \E script \in Scripts, cur \in {MainStream} \cup SideStreams,
          d \in BOOLEAN :
          LET tab == RunScript(InBuild(script, d),
                               [messages |-> <<>>, summaries |-> <<>>,
                                now |-> 0])
          IN  /\ messages = store_exchange(tab.messages, tab.now, cur.user_id,
                                           cur.sphere, "hello", "gen1")
              /\ summaries = tab.summaries
              /\ now = tab.now + 2
              /\ call = [fn |-> "none", detached_ok |-> d]

\* should_summarize(user_id, sphere): what it returns, or that it raised
ShouldSummarize ==
    \E s \in {MainStream} \cup SideStreams :
        LET raises == last_sum_read_raises(summaries, s.user_id, s.sphere, call)
        IN  /\ call' = [fn |-> "should_summarize",
                        detached_ok |-> call.detached_ok,
                        user_id |-> s.user_id, sphere |-> s.sphere,
                        raised |-> raises,
                        result |-> ~raises /\ should_summarize(messages, summaries,
                                                               s.user_id, s.sphere)]
            /\ UNCHANGED <<users, messages, summaries, now, skip, last>>

\* the compression call of an application of summarize: it returns a text
\* or it raises
CompressionOutcomes == {ChatOk, [ChatOk EXCEPT !.sum_ok = FALSE]}

\* summarize(user_id, sphere) on the tables of a script; call keeps the
\* Summary table as it was, whether should_summarize raised and what it
\* answered, the compression call's outcome and what summarize did
Summarize ==
    \E s \in {MainStream} \cup SideStreams, o \in CompressionOutcomes :
        LET c == [o EXCEPT !.detached_ok = call.detached_ok]
            r == summarize(messages, summaries, now, s.user_id, s.sphere, c)
            raises == last_sum_read_raises(summaries, s.user_id, s.sphere, c)
        IN  /\ call.fn = "none"
            /\ summaries' = r.summaries
            /\ now' = r.now
            /\ call' = [fn |-> "summarize", detached_ok |-> call.detached_ok,
                        user_id |-> s.user_id,
                        sphere |-> s.sphere, c |-> c, before |-> summaries,
                        check_raised |-> raises,
                        should |-> ~raises /\ should_summarize(messages, summaries,
                                                               s.user_id, s.sphere),
                        gen |-> r.gen, raised |-> r.raised,
                        result |-> r.result]
            /\ UNCHANGED <<users, messages, skip, last>>

SummaryNext == ShouldSummarize \/ Summarize

SummarySpec == SummaryInit /\ [][SummaryNext]_vars

\* the Summary rows of (user_id, sphere)
SummariesOf(user_id, sphere) ==
    {i \in DOMAIN summaries :
        summaries[i].user_id = user_id /\ summaries[i].sphere = sphere}

\* the Message rows of role user of (user_id, sphere) created strictly
\* after every Summary of (user_id, sphere)
CountedRows(user_id, sphere) ==
    {i \in DOMAIN messages :
        /\ messages[i].user_id = user_id
        /\ messages[i].sphere = sphere
        /\ messages[i].role = "user"
        /\ \A j \in SummariesOf(user_id, sphere) :
              messages[i].created_at > summaries[j].created_at}

\* C20: should_summarize(user, sphere) is true exactly when count >= 3 and
\* (user, sphere) has no Summary, or count >= 10 and it has one, count being
\* the number of Messages of role user of that user and sphere created
\* strictly after the latest Summary of that user and sphere (all of them
\* when there is none); rows of other users, of other spheres and of role
\* assistant do not count.
C20_ShouldSummarizeThresholds ==
    call.fn = "should_summarize"
        => LET count == Cardinality(CountedRows(call.user_id, call.sphere))
               none  == SummariesOf(call.user_id, call.sphere) = {}
           IN  /\ ~call.raised
               /\ call.result <=> ((none /\ count >= 3) \/ (~none /\ count >= 10))

\* should_summarize was true for a conversation that has a Summary and ten
\* later messages of the user, in tables that also hold rows and a later
\* Summary of another conversation
C20_Witness ==
    /\ call.fn = "should_summarize"
    /\ call.user_id = MainStream.user_id
    /\ call.sphere = MainStream.sphere
    /\ call.result
    /\ SummariesOf(MainStream.user_id, MainStream.sphere) # {}
    /\ Cardinality(CountedRows(MainStream.user_id, MainStream.sphere)) = 10
    /\ \E j \in DOMAIN summaries :
          /\ summaries[j].user_id # MainStream.user_id
          /\ \A i \in SummariesOf(MainStream.user_id, MainStream.sphere) :
                summaries[j].created_at > summaries[i].created_at

-----------------------------------------------------------------------------
(* The generation service (src/bot/services/ai_service.py).  A text is a   *)
(* sequence of chunks; a backend b says what the two models do during one  *)
(* call of generate_response: whether the model object can be built        *)
(* (b.primary_model, b.fallback_model) and whether generate_content        *)
(* returns a text, returns a response without parts, or raises (b.primary, *)
(* b.fallback).                                                            *)

max_retries == 3

\* the texts generate_response returns in place of a model's output
NotConfigured == <<"AI service not configured.">>
SafetyBlocked == <<"Request blocked by safety filters. Please rephrase.">>

\* _get_model: TRUE when the model object was built, FALSE for None
_get_model(b, use_fallback) ==
    IF use_fallback THEN b.fallback_model ELSE b.primary_model

\* generate_response returning the service's own notice when both models fail
generate_response_notice_on_failure(b) ==
    IF ~_get_model(b, FALSE)
    THEN [raised |-> FALSE, text |-> NotConfigured, calls |-> 0]
    ELSE IF b.primary = "text"
    THEN [raised |-> FALSE, text |-> b.primary_text, calls |-> 1]
    ELSE IF b.primary = "blocked"
    THEN [raised |-> FALSE, text |-> SafetyBlocked, calls |-> 1]
    ELSE IF ~_get_model(b, TRUE)
    THEN [raised |-> FALSE, text |-> NotConfigured, calls |-> 1]
    ELSE IF b.fallback = "text"
    THEN [raised |-> FALSE, text |-> b.fallback_text, calls |-> 2]
    ELSE [raised |-> FALSE, text |-> NotConfigured, calls |-> 2]

\* generate_response: the text returned or the fact that it raised, and the
\* number of generate_content calls made.  The text accessor of a response
\* without parts raises, which the fallback branch does not guard against.
generate_response(b) ==
    IF ~_get_model(b, FALSE)
    THEN [raised |-> FALSE, text |-> NotConfigured, calls |-> 0]
    ELSE IF b.primary = "text"
    THEN [raised |-> FALSE, text |-> b.primary_text, calls |-> 1]
    ELSE IF b.primary = "blocked"
    THEN [raised |-> FALSE, text |-> SafetyBlocked, calls |-> 1]
    ELSE IF ~_get_model(b, TRUE)
    THEN [raised |-> TRUE, text |-> <<>>, calls |-> 1]
    ELSE IF b.fallback = "text"
    THEN [raised |-> FALSE, text |-> b.fallback_text, calls |-> 2]
    ELSE [raised |-> TRUE, text |-> <<>>, calls |-> 2]

\* white space between the chunks of a text
IsSpace(ch) == ch = " "

\* re.sub(fence + r"\s*", "", text): the fence and the white space after it
RECURSIVE RemoveFence(_, _)
RemoveFence(fence, text) ==
    LET RECURSIVE DropSpace(_)
        DropSpace(t) == IF t # <<>> /\ IsSpace(Head(t))
                        THEN DropSpace(Tail(t)) ELSE t
    IN  IF text = <<>> THEN <<>>
        ELSE IF Head(text) = fence
        THEN RemoveFence(fence, DropSpace(Tail(text)))
        ELSE <<Head(text)>> \o RemoveFence(fence, Tail(text))

\* str.strip
RECURSIVE strip(_)
strip(text) ==
    IF text = <<>> THEN <<>>
    ELSE IF IsSpace(Head(text)) THEN strip(Tail(text))
    ELSE IF IsSpace(text[Len(text)]) THEN strip(SubSeq(text, 1, Len(text) - 1))
    ELSE text

\* the chunks that stand for the opening and the closing mark of a code
\* block
FenceJson == "<fence json>"
Fence == "<fence>"

\* _clean_json_string
_clean_json_string(text) ==
    strip(RemoveFence(Fence, RemoveFence(FenceJson, text)))

\* the chunks that are one JSON value each, and the kind of the value
JsonObjects == {"{1}", "{2}"}
JsonArrays == {"[]"}

\* json.loads: one value, with white space allowed around it; anything else
\* is a JSONDecodeError
json_loads(text) ==
    LET body == SelectSeq(text, LAMBDA ch : ~IsSpace(ch))
    IN  IF Len(body) = 1 /\ body[1] \in JsonObjects
        THEN [raised |-> FALSE, value |-> [kind |-> "dict", of |-> body[1]]]
        ELSE IF Len(body) = 1 /\ body[1] \in JsonArrays
        THEN [raised |-> FALSE, value |-> [kind |-> "list", of |-> body[1]]]
        ELSE [raised |-> TRUE, value |-> [kind |-> "none", of |-> ""]]

\* the loop of generate_json_response from attempt number attempt on; bs[i]
\* is the backend of the i-th call of generate_response and sent the prompts
\* passed so far
RECURSIVE json_attempts(_, _, _, _, _)
json_attempts(bs, prompt, retries, attempt, sent) ==
    IF attempt >= retries
    THEN [raised |-> TRUE, error |-> "no_valid_json",
          value |-> [kind |-> "none", of |-> ""], sent |-> sent]
    ELSE
    LET response == generate_response(bs[attempt + 1])
        sent1    == Append(sent, prompt)
        result   == json_loads(_clean_json_string(response.text))
        failed   == response.raised \/ result.raised
    IN  IF ~failed
        THEN [raised |-> FALSE, error |-> "", value |-> result.value,
              sent |-> sent1]
        ELSE IF attempt = retries - 1
        THEN [raised |-> TRUE,
              error |-> IF response.raised THEN "reraised" ELSE "parse_failed",
              value |-> [kind |-> "none", of |-> ""], sent |-> sent1]
        ELSE json_attempts(bs, prompt, retries, attempt + 1, sent1)

\* generate_json_response giving up after the first attempt
generate_json_response_single(bs, prompt, retries) ==
    json_attempts(bs, prompt, IF retries > 0 THEN 1 ELSE 0, 0, <<>>)

\* generate_json_response
generate_json_response(bs, prompt, retries) ==
    json_attempts(bs, prompt, retries, 0, <<>>)

-----------------------------------------------------------------------------
(* Context assembly (src/bot/utils/helpers.py): what build_sphere_prompt   *)
(* hands to the template of the curator.                                   *)

HistoryLimit == 10
MaxHistory == 12
MaxSummaries == 2

\* the text that stands for an empty history or a missing Summary
NoData == <<"no data">>

\* get_last_messages that keeps the oldest rows
get_last_messages_oldest(msgs, user_id, sphere, limit) ==
    LET rows == SelectSeq(msgs, LAMBDA m : m.user_id = user_id /\ m.sphere = sphere)
        k    == IF Len(rows) < limit THEN Len(rows) ELSE limit
    IN  SubSeq(rows, 1, k)

\* get_last_messages: ORDER BY id DESC LIMIT limit, then reversed
get_last_messages(msgs, user_id, sphere, limit) ==
    LET rows  == SelectSeq(msgs, LAMBDA m : m.user_id = user_id /\ m.sphere = sphere)
        n     == Len(rows)
        k     == IF n < limit THEN n ELSE limit
        taken == [i \in 1..k |-> rows[n - i + 1]]
    IN  [i \in 1..k |-> taken[k - i + 1]]

\* get_last_summarization_text reading the Summary rows of every user
get_last_summarization_text_any_user(sums, user_id, sphere) ==
    LET S == {i \in DOMAIN sums : sums[i].sphere = sphere}
    IN  IF S = {}
        THEN NoData
        ELSE sums[CHOOSE i \in S :
                     \A j \in S : sums[j].created_at <= sums[i].created_at].text

\* get_last_summarization_text
get_last_summarization_text(sums, user_id, sphere) ==
    LET summarization == get_last_summarization(sums, user_id, sphere)
    IN  IF summarization # 0 THEN sums[summarization].text ELSE NoData

\* a line of the history
HistoryLine(msg) ==
    <<IF msg.role = "user" THEN "User" ELSE "Assistant", ": ", msg.content>>

\* build_sphere_prompt: the template that is loaded and the values it is
\* rendered with; the history is its lines, joined by the code
build_sphere_prompt(msgs, sums, user_id, sphere, curator) ==
    LET rows == get_last_messages(msgs, user_id, sphere, HistoryLimit)
        history_lines == [i \in DOMAIN rows |-> HistoryLine(rows[i])]
    IN  [template |-> <<sphere, curator>>,
         sumSoul |-> get_last_summarization_text(sums, user_id, "soul"),
         sumBody |-> get_last_summarization_text(sums, user_id, "body"),
         sumBusiness |-> get_last_summarization_text(sums, user_id, "business"),
         history |-> IF history_lines # <<>> THEN history_lines ELSE <<NoData>>]

-----------------------------------------------------------------------------
(* Conversations long enough to be compressed: the handlers, with every    *)
(* generation call going through generate_response.                        *)

MaxFaultTurns == 4

\* a backend on which the primary model answers
BackendOk ==
    [primary_model |-> TRUE, primary |-> "text", primary_text |-> <<"gen1">>,
     fallback_model |-> TRUE, fallback |-> "text", fallback_text |-> <<"gen2">>]

\* the primary model returns a response without parts
BackendBlocked == [BackendOk EXCEPT !.primary = "blocked"]

\* the primary model raises and no fallback model can be built
BackendDown == [BackendOk EXCEPT !.primary = "raises", !.fallback_model = FALSE]

\* the environment of a turn: the prompt file, the backend during the
\* answering call (chat.py:132, chat.py:249) and the backend during the
\* compression call (summarization_service.py:152)
RunOk == [prompt_ok |-> TRUE, gen |-> BackendOk, sum |-> BackendOk,
          detached_ok |-> TRUE]
RunEnvironments ==
    {RunOk, [RunOk EXCEPT !.prompt_ok = FALSE]}
        \cup {[RunOk EXCEPT !.gen = b] : b \in {BackendBlocked, BackendDown}}
        \cup {[RunOk EXCEPT !.sum = b] : b \in {BackendBlocked, BackendDown}}

\* what the two calls of generate_response of a turn do on these backends
ChatEnvironment(e) ==
    LET g == generate_response(e.gen)
        s == generate_response(e.sum)
    IN  [prompt_ok |-> e.prompt_ok,
         gen_ok |-> ~g.raised, text |-> g.text,
         sum_ok |-> ~s.raised, sum_text |-> s.text,
         detached_ok |-> e.detached_ok]

\* the environment e of a turn in the build of this run
ThisBuild(e) == [e EXCEPT !.detached_ok = call.detached_ok]

RunInit ==
    /\ users = <<>>
    /\ messages = <<>>
    /\ summaries = <<>>
    /\ now = 0
    /\ skip = TRUE
    /\ last = [op |-> "init", user |-> 0, created |-> FALSE,
               replies |-> <<>>, gen |-> 0]
    /\ \E d \in BOOLEAN :
          call = [fn |-> "none", detached_ok |-> d, windows |-> <<>>]

\* the context a chat turn of u in the private chat assembles before it
\* asks for the answer
RunContext(t, msgs, sums, u) ==
    build_sphere_prompt(msgs, sums, t[u].id, "center",
                        _get_user_curator(t, u, "center"))

\* the windows of the summarize calls of a turn that stored a Summary: for
\* each new Summary row the ids of the Message rows that
\* _get_messages_since_last_summarization gave the call, and the number of
\* Message rows stored by then
WindowsOf(r) ==
    [k \in 1..(Len(r.summaries) - Len(summaries)) |->
        LET row == r.summaries[Len(summaries) + k]
            w   == get_messages_since_last_summarization(
                       r.messages, SubSeq(r.summaries, 1, Len(summaries) + k - 1),
                       row.user_id, row.sphere)
        IN  [ids |-> {w[i].id : i \in DOMAIN w}, stored |-> Len(r.messages)]]

\* a chat handler on a private chat, in a conversation of at most turns
\* exchanges; call keeps the environment of the turn, the context
\* assembled when the turn got as far as the generation call, and the
\* windows of all the summaries stored so far
RunHandled(op, u, e, r, turns) ==
    /\ Len(r.messages) <= 2 * turns
    /\ users' = r.users
    /\ messages' = r.messages
    /\ summaries' = r.summaries
    /\ now' = r.now
    /\ last' = Observed(op, u, r)
    /\ call' = [fn |-> op, detached_ok |-> call.detached_ok,
                windows |-> call.windows \o WindowsOf(r),
                e |-> ThisBuild(e),
                context |-> IF r.gen >= 1
                            THEN <<RunContext(r.users, messages, summaries, u)>>
                            ELSE <<>>]
    /\ UNCHANGED skip

\* a text message in a turn of environment e
RunTextIn(u, e, turns) ==
    \E x \in UserTexts :
        RunHandled("text", u, e,
                   _handle_message(users, messages, summaries, now, u,
                                   Direct(10), x, ChatEnvironment(ThisBuild(e))),
                   turns)

\* a voice message that is transcribed, in a turn of environment e
RunVoiceIn(u, e, turns) ==
    RunHandled("voice", u, e,
               _handle_voice(users, messages, summaries, now, u,
                             Direct(10), VoiceOk, ChatEnvironment(ThisBuild(e))),
               turns)

\* the web form choosing one curator for one sphere
RunSelectCurator(u) ==
    Handled("select_curator", u,
            Done(select_curator(users, u, "soul", "osho"), <<>>, 0))

\* long conversations in which no call fails
RunText(u) == RunTextIn(u, RunOk, MaxScriptTurns)

RunVoice(u) == RunVoiceIn(u, RunOk, MaxScriptTurns)

RunNext ==
    \E u \in Users :
        \/ StartCommand(u)
        \/ PsychotypeCommand(u)
        \/ Callback(u)
        \/ RunText(u)
        \/ RunVoice(u)
        \/ RunSelectCurator(u)

RunSpec == RunInit /\ [][RunNext]_vars

\* conversations up to the first compressions, in which the calls of a text
\* turn may fail
FaultText(u) == \E e \in RunEnvironments : RunTextIn(u, e, MaxFaultTurns)

FaultVoice(u) == RunVoiceIn(u, RunOk, MaxFaultTurns)

FaultNext ==
    \E u \in Users :
        \/ StartCommand(u)
        \/ PsychotypeCommand(u)
        \/ Callback(u)
        \/ FaultText(u)
        \/ FaultVoice(u)
        \/ RunSelectCurator(u)

FaultSpec == RunInit /\ [][FaultNext]_vars

-----------------------------------------------------------------------------
(* Properties of long conversations.                                       *)

\* the conversation of the private chat
RunStream == [user_id |-> 1, sphere |-> "center"]

\* the Message rows of role user of the private chat
UserTurns ==
    {i \in DOMAIN messages :
        /\ messages[i].user_id = RunStream.user_id
        /\ messages[i].sphere = RunStream.sphere
        /\ messages[i].role = "user"}

\* the Message rows of the private chat stored before Summary row j
TurnsBefore(j) ==
    {i \in UserTurns : messages[i].created_at < summaries[j].created_at}

\* C21: over a run of successful exchanges in one sphere with successful
\* compression, the first Summary is created right after the 3rd user turn
\* and each later one right after the 10th user turn that follows the
\* previous Summary, and between these points should_summarize is false:
\* after n user turns there are 0 summaries when n < 3 and
\* 1 + (n - 3) \div 10 otherwise, the k-th of them stored after exactly
\* 3 + 10 * (k - 1) user turns, and should_summarize is false at the end of
\* every turn.
C21_SummariesAtThirdThenEveryTenth ==
    LET n == Cardinality(UserTurns)
    IN  /\ Len(summaries) = IF n < 3 THEN 0 ELSE 1 + (n - 3) \div 10
        /\ \A k \in DOMAIN summaries :
              /\ summaries[k].user_id = RunStream.user_id
              /\ summaries[k].sphere = RunStream.sphere
              /\ Cardinality(TurnsBefore(k)) = 3 + 10 * (k - 1)
        /\ ~should_summarize(messages, summaries,
                             RunStream.user_id, RunStream.sphere)

\* thirteen successful exchanges and their two summaries
C21_Witness ==
    /\ Cardinality(UserTurns) = 13
    /\ Len(summaries) = 2
    /\ last.op = "text"
    /\ last.gen = 2

BackendFailure(b) ==
    \/ ~b.primary_model
    \/ b.primary = "blocked"
    \/ b.primary = "raises" /\ (~b.fallback_model \/ b.fallback # "text")

\* the step being taken is a chat turn of u that asked for a compression
RunCompression(u) == ChatStep(u) /\ last'.gen = 2

\* the step being taken is a chat turn of u that asked for an answer
RunGeneration(u) == ChatStep(u) /\ last'.gen >= 1

\* C23: a failure of summarization after an exchange is isolated: both
\* Messages of the exchange remain stored, the reply has been sent, no error
\* message is shown to the user, and no Summary is stored for the failed
\* attempt.
C23_SummarizationFailureIsolated ==
    [][\A u \in Users :
          (RunCompression(u) /\ BackendFailure(call'.e.sum))
              => /\ Len(messages') = Len(messages) + 2
                 /\ SubSeq(messages', 1, Len(messages)) = messages
                 /\ Len(last'.replies) = 1
                 /\ last'.replies[1].kind = "assistant_reply"
                 /\ summaries' = summaries]_vars

\* C24: if the generation call of a chat turn fails, neither Message of the
\* turn is stored (the two are written in one commit, after the generation
\* call).
C24_NoMessagesWhenGenerationFails ==
    [][\A u \in Users :
          (RunGeneration(u) /\ BackendFailure(call'.e.gen))
              => messages' = messages]_vars

-----------------------------------------------------------------------------
(* build_sphere_prompt applied to tables of several conversations.         *)

\* the conversation whose history is read, and conversations of another
\* user and of another sphere
PromptStream == [user_id |-> 1, sphere |-> "soul"]
PromptSides == {[user_id |-> 2, sphere |-> "soul"], [user_id |-> 1, sphere |-> "center"]}

\* the Message table after n rows of the conversation, with k rows of a side
\* conversation stored after the first pos of them; a row's content is its
\* number, roles alternate
PromptMessages(n, side, k, pos) ==
    LET cut == IF pos < n THEN pos ELSE n
        Owner(i) == IF i > cut /\ i <= cut + k THEN side ELSE PromptStream
    IN  [i \in 1..(n + k) |->
            [id |-> i, user_id |-> Owner(i).user_id, sphere |-> Owner(i).sphere,
             role |-> IF i % 2 = 1 THEN "user" ELSE "assistant",
             content |-> i, created_at |-> i]]

\* the conversations that have Summary rows
SummaryOwners ==
    {[user_id |-> 1, sphere |-> "soul"], [user_id |-> 1, sphere |-> "business"],
     [user_id |-> 2, sphere |-> "soul"], [user_id |-> 1, sphere |-> "center"]}

\* the sequences of at most n owners
RECURSIVE OwnerSeqs(_)
OwnerSeqs(n) ==
    IF n = 0 THEN {<<>>}
    ELSE LET shorter == OwnerSeqs(n - 1)
         IN  shorter \cup {Append(q, o) : q \in shorter, o \in SummaryOwners}

\* the Summary table with one row per owner, stored in this order after
\* time clock; a row's text holds its number
PromptSummaries(owners, clock) ==
    [j \in DOMAIN owners |->
        [id |-> j, user_id |-> owners[j].user_id, sphere |-> owners[j].sphere,
         text |-> <<"summary", j>>, created_at |-> clock + j]]

PromptInit ==
    /\ users = (1 :> ChattingUser(1)) @@ (2 :> ChattingUser(2))
    /\ skip = FALSE
    /\ last = [op |-> "init", user |-> 0, created |-> FALSE,
               replies |-> <<>>, gen |-> 0]
    /\ call = NoCall
    /\ \E n \in 0..MaxHistory, side \in PromptSides, k \in 0..1, pos \in {0, 3},
          owners \in OwnerSeqs(MaxSummaries) :
          /\ messages = PromptMessages(n, side, k, pos)
          /\ summaries = PromptSummaries(owners, n + k)
          /\ now = n + k + Len(owners) + 1

\* build_sphere_prompt(user_id, sphere, curator)
BuildSpherePrompt ==
    \E s \in {PromptStream} \cup PromptSides :
        /\ call' = [fn |-> "build_sphere_prompt", user_id |-> s.user_id,
                    sphere |-> s.sphere,
                    result |-> build_sphere_prompt(messages, summaries, s.user_id,
                                                   s.sphere, "vibe")]
        /\ UNCHANGED <<users, messages, summaries, now, skip, last>>

PromptNext == BuildSpherePrompt

PromptSpec == PromptInit /\ [][PromptNext]_vars

\* the Summary row of (user_id, sphere) that no other one is later than
LatestSummary(user_id, sphere) ==
    CHOOSE i \in SummariesOf(user_id, sphere) :
        \A j \in SummariesOf(user_id, sphere) :
            summaries[j].created_at <= summaries[i].created_at

\* the text of the latest Summary of (user_id, sphere), or the sentinel
SummaryText(user_id, sphere) ==
    IF SummariesOf(user_id, sphere) = {}
    THEN NoData
    ELSE summaries[LatestSummary(user_id, sphere)].text

\* C25: whichever sphere is active, the context assembled by
\* build_sphere_prompt holds, for each of soul, body and business, the text
\* of the latest-by-created_at Summary of that sphere of the user, or
\* "no data" when the user has none; it never holds another user's Summary.
C25_ContextHoldsThreeSummaries ==
    call.fn = "build_sphere_prompt"
        => /\ call.result.sumSoul = SummaryText(call.user_id, "soul")
           /\ call.result.sumBody = SummaryText(call.user_id, "body")
           /\ call.result.sumBusiness = SummaryText(call.user_id, "business")
           /\ \A j \in DOMAIN summaries :
                 summaries[j].user_id # call.user_id
                    => summaries[j].text \notin
                           {call.result.sumSoul, call.result.sumBody,
                            call.result.sumBusiness}

\* the context of the center sphere of a user with an older Summary of soul,
\* while the latest Summary of soul in the table is another user's
C25_Witness ==
    /\ call.fn = "build_sphere_prompt"
    /\ call.user_id = 1
    /\ call.sphere = "center"
    /\ Len(summaries) = 2
    /\ summaries[1].user_id = 1 /\ summaries[1].sphere = "soul"
    /\ summaries[2].user_id = 2 /\ summaries[2].sphere = "soul"
    /\ call.result.sumSoul = summaries[1].text
    /\ call.result.sumBody = NoData

\* the Message rows of (user_id, sphere)
RowsOf(user_id, sphere) ==
    {i \in DOMAIN messages :
        messages[i].user_id = user_id /\ messages[i].sphere = sphere}

\* the HistoryLimit most recently stored of them
RecentRows(user_id, sphere) ==
    {i \in RowsOf(user_id, sphere) :
        Cardinality({j \in RowsOf(user_id, sphere) : j > i}) < HistoryLimit}

\* C26: the history build_sphere_prompt surfaces for (user, sphere) is
\* exactly the min(10, n) most recently stored Messages of that user and
\* sphere, n being their number, in chronological order, with no Message of
\* another sphere or user, and is "no data" when n = 0.
C26_HistoryIsLastTen ==
    call.fn = "build_sphere_prompt"
        => LET R == RowsOf(call.user_id, call.sphere)
               K == RecentRows(call.user_id, call.sphere)
               history == call.result.history
           IN  IF R = {}
               THEN history = <<NoData>>
               ELSE /\ Len(history) = Cardinality(K)
                    /\ Len(history) = IF Cardinality(R) < 10
                                      THEN Cardinality(R) ELSE 10
                    /\ \A p \in DOMAIN history :
                          \E i \in K :
                             /\ Cardinality({j \in K : j < i}) = p - 1
                             /\ history[p] = HistoryLine(messages[i])

\* the history of a conversation of twelve Messages with a Message of
\* another conversation stored among them
C26_Witness ==
    /\ call.fn = "build_sphere_prompt"
    /\ call.user_id = PromptStream.user_id
    /\ call.sphere = PromptStream.sphere
    /\ Cardinality(RowsOf(call.user_id, call.sphere)) = 12
    /\ Len(messages) = 13
    /\ Len(call.result.history) = 10
    /\ messages[4].sphere # PromptStream.sphere
    /\ call.result.history[1] = HistoryLine(messages[3])
    /\ call.result.history[2] = HistoryLine(messages[5])

\* table old is the beginning of table new, row for row
Extends(new, old) ==
    /\ Len(new) >= Len(old)
    /\ SubSeq(new, 1, Len(old)) = old

\* C27: stored Messages and Summaries are append-only: no operation (chat
\* turn with its context assembly and summarization, onboarding, restart,
\* curator selection) modifies or deletes a stored Message or Summary; a
\* step only adds rows after the ones that were there.
C27_MessagesAndSummariesAppendOnly ==
    [][/\ Extends(messages', messages)
       /\ Extends(summaries', summaries)]_vars

\* a restart of a user who has stored Messages and a Summary
C27_Witness ==
    /\ last.op = "psychotype"
    /\ Len(messages) >= 2 * FIRST_SUMMARIZATION_THRESHOLD
    /\ Len(summaries) >= 1
    /\ users[1].is_onboarding

-----------------------------------------------------------------------------
(* generate_response and generate_json_response applied to backends.       *)

\* outputs of a model: an object inside a code block, a bare object, an
\* array, and prose around an object
JsonFenced == <<FenceJson, " ", "{1}", " ", Fence>>
JsonPlain == <<"{2}">>
JsonList == <<"[]">>
Prose == <<"Here", " ", "{1}">>

\* what the backend may do during one call of generate_response
AiBackends ==
    {[BackendOk EXCEPT !.primary_model = FALSE], BackendBlocked, BackendDown}
        \cup {[BackendOk EXCEPT !.primary_text = x] :
                 x \in {JsonFenced, JsonPlain, JsonList, Prose}}
        \cup {[BackendOk EXCEPT !.primary = "raises", !.fallback_text = x] :
                 x \in {JsonPlain, Prose}}
        \cup {[BackendOk EXCEPT !.primary = "raises", !.fallback = f] :
                 f \in {"raises", "blocked"}}

AiPrompt == "prompt"

\* the backends of max_retries successive calls, and the max_retries argument
AiInit ==
    /\ users = <<>>
    /\ messages = <<>>
    /\ summaries = <<>>
    /\ now = 0
    /\ skip = FALSE
    /\ last = [op |-> "init", user |-> 0, created |-> FALSE,
               replies |-> <<>>, gen |-> 0]
    /\ \E bs \in [1..max_retries -> AiBackends], n \in 0..max_retries :
          call = [fn |-> "none", bs |-> bs, retries |-> n]

\* generate_response(prompt)
GenerateResponse ==
    /\ call.fn = "none"
    /\ call' = [fn |-> "generate_response", bs |-> call.bs,
                retries |-> call.retries, b |-> call.bs[1],
                result |-> generate_response(call.bs[1])]
    /\ UNCHANGED <<users, messages, summaries, now, skip, last>>

\* generate_json_response(prompt, max_retries)
GenerateJsonResponse ==
    /\ call.fn = "none"
    /\ call' = [fn |-> "generate_json_response", bs |-> call.bs,
                retries |-> call.retries,
                result |-> generate_json_response(call.bs, AiPrompt,
                                                  call.retries)]
    /\ UNCHANGED <<users, messages, summaries, now, skip, last>>

AiNext == GenerateResponse \/ GenerateJsonResponse

AiSpec == AiInit /\ [][AiNext]_vars

\* the i-th call of generate_response returns a text that parses as JSON
Parses(i) ==
    LET response == generate_response(call.bs[i])
    IN  /\ ~response.raised
        /\ ~json_loads(_clean_json_string(response.text)).raised

\* the value the text of the i-th call parses to
ParsedValue(i) ==
    json_loads(_clean_json_string(generate_response(call.bs[i]).text)).value

C29_GenerateResponseFailsOnBackendFailure ==
    call.fn = "generate_response"
        => /\ BackendFailure(call.b) => call.result.raised
           /\ ~call.result.raised
                 => \/ /\ call.b.primary_model
                       /\ call.b.primary = "text"
                       /\ call.result.text = call.b.primary_text
                    \/ /\ call.b.primary_model
                       /\ call.b.primary = "raises"
                       /\ call.b.fallback_model
                       /\ call.b.fallback = "text"
                       /\ call.result.text = call.b.fallback_text

-----------------------------------------------------------------------------
(* The skip flag.                                                          *)

\* C30: with the skip flag enabled, the completion of onboarding makes no
\* generation call and commits fixed defaults: the fixed profile summary,
\* the same fixed curator for all four spheres as both recommended and
\* selected, and is_onboarding = false.
C30_SkipFlagCommitsDefaults ==
    [][\A u \in DOMAIN users :
          (skip /\ last'.op = "answer" /\ last'.user = u /\ SentNext("processing"))
              => /\ last'.gen = 0
                 /\ SentNext("test_done")
                 /\ users'[u].psychotype = SkipPsychotype
                 /\ \A s \in Spheres :
                       /\ users'[u].recommended[s] = "vibe"
                       /\ users'[u].selected[s] = "vibe"
                 /\ ~users'[u].is_onboarding]_vars

\* a completion under the skip flag
C30_Witness ==
    /\ skip
    /\ last.op = "answer"
    /\ last.user \in DOMAIN users
    /\ Sent("processing")
    /\ Sent("test_done")
    /\ last.gen = 0
    /\ users[last.user].psychotype = SkipPsychotype
    /\ ~users[last.user].is_onboarding


(***************************************************************************)
(* Storage sessions and generation calls.  Each path of the chat handler,  *)
(* of the completion of onboarding and of summarize is the sequence of     *)
(* its steps: "enter" opens a get_session block, "exit" commits and closes *)
(* it, "rollback" rolls it back and closes it (an exception inside the     *)
(* block), "generate" awaits one call of generate_response, "reply" sends  *)
(* a message.                                                              *)
(***************************************************************************)

\* a get_session block that runs to its end
Block == <<"enter", "exit">>

\* _get_messages_since_last_summarization: its block, the block of
\* _get_last_summarization inside it, and the read of the detached row
window_steps(e) ==
    <<"enter">> \o Block
        \o (IF e.has_previous /\ ~e.detached_ok THEN <<"rollback">> ELSE <<"exit">>)

\* the variant of summarize that asks for the compression inside a block
summarize_steps_in_block(e) ==
    IF e.has_previous /\ ~e.detached_ok THEN window_steps(e)
    ELSE window_steps(e) \o Block
            \o (IF ~e.should THEN <<>>
                ELSE window_steps(e)
                        \o (IF ~e.prompt_ok THEN <<>>
                            ELSE <<"enter", "generate">>
                                    \o (IF e.sum_ok THEN <<"exit">>
                                        ELSE <<"rollback">>)))

\* summarize: should_summarize (the window, then _get_last_summarization),
\* and when it is true the window again, the prompt file, the compression
\* call and the block that stores the Summary
summarize_steps(e) ==
    IF e.has_previous /\ ~e.detached_ok THEN window_steps(e)
    ELSE window_steps(e) \o Block
            \o (IF ~e.should THEN <<>>
                ELSE window_steps(e)
                        \o (IF ~e.prompt_ok THEN <<>>
                            ELSE <<"generate">>
                                    \o (IF e.sum_ok THEN Block ELSE <<>>)))

\* build_sphere_prompt: the prompt file, three summaries, the last messages
build_sphere_prompt_steps(e) ==
    IF e.prompt_ok THEN Block \o Block \o Block \o Block ELSE <<>>

\* the sphere detection of the chat handlers: update_user_thread for a
\* topic whose name is known, get_sphere_by_thread otherwise
resolve_sphere_steps(e) ==
    CASE e.route = "direct" -> <<>>
      [] e.route = "named"  -> Block
      [] OTHER              -> Block

\* handle_text_message and process_transcribed_text
handle_text_message_steps(e) ==
    Block
        \o (IF ~e.has_curators THEN <<"reply">>
            ELSE resolve_sphere_steps(e)
                    \o (IF e.route = "lost" THEN <<"reply">>
                        ELSE Block
                                \o (IF ~e.curator THEN <<"reply">>
                                    ELSE Block \o build_sphere_prompt_steps(e)
                                            \o (IF ~e.prompt_ok THEN <<"reply">>
                                                ELSE <<"generate">>
                                                        \o (IF ~e.gen_ok THEN <<"reply">>
                                                            ELSE Block \o <<"reply">>
                                                                    \o summarize_steps(e))))))

\* generate_json_response: one generation call per attempt
generate_json_response_steps(tries) == [i \in 1..tries |-> "generate"]

\* _complete_onboarding: e.tries is the number of attempts the
\* recommendation call makes, e.valid whether the result is accepted
complete_onboarding_steps(e) ==
    <<"reply">>
        \o (IF e.skip THEN <<>>
            ELSE Block
                    \o (IF ~e.prompt_ok THEN <<>>
                        ELSE <<"generate">>
                                \o (IF ~e.gen_ok THEN <<>>
                                    ELSE generate_json_response_steps(e.tries))))
        \o (IF e.skip \/ (e.prompt_ok /\ e.gen_ok /\ e.valid)
            THEN Block \o <<"reply", "reply", "reply">>
            ELSE <<"reply">>)

\* what a path can meet
SessionEnvironments ==
    [has_curators : BOOLEAN, route : {"direct", "named", "bound", "lost"},
     curator : BOOLEAN, prompt_ok : BOOLEAN, gen_ok : BOOLEAN,
     has_previous : BOOLEAN, detached_ok : BOOLEAN, should : BOOLEAN,
     sum_ok : BOOLEAN, skip : {FALSE}, tries : {1}, valid : {TRUE}]

CompletionEnvironments ==
    [has_curators : {FALSE}, route : {"direct"}, curator : {FALSE},
     prompt_ok : BOOLEAN, gen_ok : BOOLEAN, has_previous : {FALSE},
     detached_ok : {TRUE}, should : {FALSE}, sum_ok : {TRUE},
     skip : BOOLEAN, tries : 1..max_retries, valid : BOOLEAN]

\* no path is running
Idle == [fn |-> "none", steps |-> <<>>, pc |-> 1, open |-> 0]

SessionInit ==
    /\ users = <<>>
    /\ messages = <<>>
    /\ summaries = <<>>
    /\ now = 0
    /\ skip = FALSE
    /\ last = [op |-> "init", user |-> 0, created |-> FALSE,
               replies |-> <<>>, gen |-> 0]
    /\ call = Idle

Running(fn, steps) == [fn |-> fn, steps |-> steps, pc |-> 1, open |-> 0]

\* a text or transcribed voice message arrives
BeginChat ==
    /\ call.fn = "none"
    /\ \E e \in SessionEnvironments, fn \in {"handle_text_message", "process_transcribed_text"} :
          call' = Running(fn, handle_text_message_steps(e))
    /\ UNCHANGED <<users, messages, summaries, now, skip, last>>

\* the last answer of the questionnaire arrives
BeginCompletion ==
    /\ call.fn = "none"
    /\ \E e \in CompletionEnvironments :
          call' = Running("_complete_onboarding", complete_onboarding_steps(e))
    /\ UNCHANGED <<users, messages, summaries, now, skip, last>>

\* summarize is called on its own
BeginSummarize ==
    /\ call.fn = "none"
    /\ \E e \in SessionEnvironments :
          call' = Running("summarize", summarize_steps(e))
    /\ UNCHANGED <<users, messages, summaries, now, skip, last>>

AtStep(s) == call.pc \in DOMAIN call.steps /\ call.steps[call.pc] = s

Advance(d) ==
    /\ call' = [call EXCEPT !.pc = @ + 1, !.open = @ + d]
    /\ UNCHANGED <<users, messages, summaries, now, skip, last>>

EnterSession == AtStep("enter") /\ Advance(1)

ExitSession == (AtStep("exit") \/ AtStep("rollback")) /\ Advance(-1)

\* the awaited generation call returns or raises
AwaitGeneration == AtStep("generate") /\ Advance(0)

SendReply == AtStep("reply") /\ Advance(0)

\* the path has run to its end
Return ==
    /\ call.fn # "none"
    /\ call.pc > Len(call.steps)
    /\ call' = Idle
    /\ UNCHANGED <<users, messages, summaries, now, skip, last>>

SessionNext ==
    \/ BeginChat
    \/ BeginCompletion
    \/ BeginSummarize
    \/ EnterSession
    \/ ExitSession
    \/ AwaitGeneration
    \/ SendReply
    \/ Return

SessionSpec == SessionInit /\ [][SessionNext]_vars

\* C31: no storage session is open while a generation call is awaited: in
\* the chat path, the completion of onboarding and summarize, whenever the
\* path stands at a generation call every get_session block entered so far
\* has been committed or rolled back, and every block is closed when the
\* path ends.
C31_NoSessionOpenAcrossGeneration ==
    /\ AtStep("generate") => call.open = 0
    /\ call.pc > Len(call.steps) => call.open = 0

\* a chat turn stands at the compression call of summarize, with blocks
\* closed before it and the block that stores the Summary still to come
C31_Witness ==
    /\ call.fn = "handle_text_message"
    /\ AtStep("generate")
    /\ \E i \in 1..(call.pc - 1) : call.steps[i] = "generate"
    /\ call.steps[call.pc - 1] = "exit"
    /\ call.pc + 1 \in DOMAIN call.steps /\ call.steps[call.pc + 1] = "enter"


(***************************************************************************)
(* Two users.  Their updates arrive in any order; each handler runs to its *)
(* end before the next update is taken (main.py builds the application     *)
(* without concurrent updates).  The first user to write gets primary key  *)
(* 1, whatever their telegram id.                                          *)
(***************************************************************************)

MaxPairTurns == 4

PairUsers == {1, 2}

\* a topic of a forum both users write in: a message there binds the topic
\* for its sender and is a turn of the sender's "soul" conversation
PairInbound == {InTopic(<<10, 1>>)}

\* what a chat turn of u leaves in the store
PairStored(u, r) ==
    /\ Len(r.messages) <= 2 * MaxPairTurns
    /\ users' = r.users
    /\ messages' = r.messages
    /\ summaries' = r.summaries
    /\ now' = r.now
    /\ last' = Observed("text", u, r)
    /\ UNCHANGED <<skip, call>>

PairText(u) ==
    \E m \in PairInbound, x \in UserTexts :
        PairStored(u, _handle_message(users, messages, summaries, now, u, m, x,
                                      ChatEnvironment(ThisBuild(RunOk))))

\* an answer button of the questionnaire
PairAnswer(u) ==
    \E o \in ClassOutcomes :
        LET r == _handle_callback(users, u, [onboard |-> TRUE, answer |-> "A"], o)
        IN  /\ u \in DOMAIN r.users =>
                  r.users[u].onboarding_step <= NumQuestions
            /\ Handled("answer", u, r)

PairNext ==
    \E u \in PairUsers :
        \/ PsychotypeCommand(u)
        \/ PairAnswer(u)
        \/ PairText(u)
        \/ RunSelectCurator(u)

PairSpec == RunInit /\ [][PairNext]_vars

\* the rows of a table that belong to the user with primary key id
OwnedBy(rows, id) == SelectSeq(rows, LAMBDA r : r.user_id = id)

\* what the store holds for the user with telegram id b is the same after
\* the step as before it
Untouched(b) ==
    IF b \in DOMAIN users
    THEN /\ b \in DOMAIN users'
         /\ users'[b] = users[b]
         /\ OwnedBy(messages', users[b].id) = OwnedBy(messages, users[b].id)
         /\ OwnedBy(summaries', users[b].id) = OwnedBy(summaries, users[b].id)
    ELSE b \notin DOMAIN users'

\* C32: users are independent: a handler that runs for one user (an answer,
\* a restart, a completion, a chat turn with its binding update and its
\* summarization, a curator selection) leaves the other user's profile,
\* Messages and Summaries as they were, in every interleaving of the two
\* users' updates.
C32_UsersIndependent ==
    [][\A b \in PairUsers : last'.user # b => Untouched(b)]_vars

\* both users have a Summary and a bound topic, and the user with telegram
\* id 2 holds primary key 1
C32_Witness ==
    /\ DOMAIN users = PairUsers
    /\ users[2].id = 1
    /\ \A u \in PairUsers : users[u].thread["soul"] = 1
    /\ OwnedBy(messages, 1) # <<>> /\ OwnedBy(messages, 2) # <<>>
    /\ Len(summaries) >= 1


(***************************************************************************)
(* Text and voice side by side.  A turn is handled by handle_text_message; *)
(* call keeps, next to its result, what process_transcribed_text and       *)
(* handle_voice_message make of the same text in the same state.           *)
(***************************************************************************)

TwinInit ==
    /\ users = <<>>
    /\ messages = <<>>
    /\ summaries = <<>>
    /\ now = 0
    /\ skip \in BOOLEAN
    /\ last = [op |-> "init", user |-> 0, created |-> FALSE,
               replies |-> <<>>, gen |-> 0]
    /\ \E d \in BOOLEAN : call = [fn |-> "none", detached_ok |-> d]

\* the private chat, a topic with its name, the same topic without it
TwinInbound ==
    {Direct(10), InTopic(<<10, 1>>),
     [chat_id |-> 10, thread_id |-> 1, topic |-> <<>>]}

\* turns in which every call succeeds or the answer cannot be generated
TwinEnvironments == {RunOk, [RunOk EXCEPT !.gen = BackendDown]}

\* the turn is handled as typed; call keeps the three results
TwinHandled(u, m, typed, transcribed, spoken) ==
    /\ Len(typed.messages) <= 2 * MaxFaultTurns
    /\ users' = typed.users
    /\ messages' = typed.messages
    /\ summaries' = typed.summaries
    /\ now' = typed.now
    /\ last' = Observed("text", u, typed)
    /\ call' = [fn |-> "twin", detached_ok |-> call.detached_ok, m |-> m,
                typed |-> typed, transcribed |-> transcribed, spoken |-> spoken]
    /\ UNCHANGED skip

\* what the environment e does during a turn, in the build of this run
TwinEnvironment(e) == ChatEnvironment(ThisBuild(e))

\* a message with the text x of user u, typed or spoken
TwinTurn(u) ==
    \E m \in TwinInbound, x \in UserTexts, e \in TwinEnvironments :
        TwinHandled(u, m,
                    handle_text_message(users, messages, summaries, now, u, m, x,
                                        TwinEnvironment(e)),
                    process_transcribed_text(users, messages, summaries, now, u,
                                             m, x, TwinEnvironment(e)),
                    handle_voice_message(users, messages, summaries, now, u, m,
                                         [VoiceOk EXCEPT !.text = x],
                                         TwinEnvironment(e)))

TwinNext ==
    \E u \in Users :
        \/ StartCommand(u)
        \/ Callback(u)
        \/ TwinTurn(u)

TwinSpec == TwinInit /\ [][TwinNext]_vars

\* what a chat handler leaves in the store
Stored(r) == <<r.users, r.messages, r.summaries>>

\* C33: a transcribed voice message is handled like a text message with the
\* same text: in the same state and for the same chat, thread and topic
\* name, process_transcribed_text gives what handle_text_message gives (the
\* sphere and binding, the curator gating and its replies, the Messages,
\* the Summary and the number of generation calls), and the whole voice
\* handler with that transcription leaves the same rows.
C33_TranscribedTextHandledAsText ==
    call.fn = "twin"
        => /\ call.transcribed = call.typed
           /\ Stored(call.spoken) = Stored(call.typed)

\* a third turn in a bound topic was stored and summarized on both paths
C33_Witness ==
    /\ call.fn = "twin"
    /\ TruthyId(call.m.thread_id)
    /\ Len(call.typed.messages) = 6
    /\ Len(call.typed.summaries) = 1
    /\ call.transcribed.summaries = call.typed.summaries

\* a turn of a user without a curator for the center, turned away
C33_WitnessGate ==
    /\ call.fn = "twin"
    /\ 1 \in DOMAIN users
    /\ ~Truthy(users[1].selected["center"])
    /\ \A s \in {"business", "soul", "body"} : Truthy(users[1].selected[s])
    /\ call.typed.replies = <<Reply("select_curators")>>


-----------------------------------------------------------------------------
(* Answers of the questionnaire, one step at a time.                       *)

\* the questions a handler sent, by index
QuestionsSent(replies) ==
    {replies[i].step : i \in {j \in DOMAIN replies : replies[j].kind = "question"}}

\* the handler started a completion attempt
CompletionStarted(replies) ==
    replies # <<>> /\ replies[1] = Reply("processing")

\* C34: an accepted answer appends exactly one record {question_index = the
\* step before the call, answer} and increments onboarding_step by one; a
\* completion attempt is started exactly when the new step is at least the
\* number of questions, and otherwise the question whose index is the new
\* step is sent and nothing else; a question is only ever sent as number 0
\* by a restart or as the new step by an answer, so between restarts the
\* questions are asked in index order, each once.
C34_AnswerAdvancesOneStep ==
    [][\A u \in Users :
          /\ (/\ last'.op = "answer" /\ last'.user = u
              /\ u \in DOMAIN users /\ users[u].is_onboarding)
                => LET old == users[u]
                       new == users'[u]
                   IN  /\ \E l \in Letters :
                             new.onboarding_answers =
                                 Append(old.onboarding_answers,
                                        [question_index |-> old.onboarding_step,
                                         answer |-> l])
                       /\ new.onboarding_step = old.onboarding_step + 1
                       /\ CompletionStarted(last'.replies)
                             <=> new.onboarding_step >= NumQuestions
                       /\ new.onboarding_step < NumQuestions
                             => last'.replies = <<QuestionReply(new.onboarding_step)>>
          /\ (last'.user = u /\ QuestionsSent(last'.replies) # {})
                => /\ QuestionsSent(last'.replies) = {users'[u].onboarding_step}
                   /\ users'[u].onboarding_step < NumQuestions
                   /\ \/ last'.op = "answer"
                            /\ users'[u].onboarding_step = users[u].onboarding_step + 1
                      \/ last'.op \in {"start", "psychotype"}
                            /\ users'[u].onboarding_step = 0]_vars

\* the first answer was stored as record 0 and question 1 was sent
C34_Witness ==
    /\ last.op = "answer"
    /\ last.replies = <<QuestionReply(1)>>
    /\ users[1].onboarding_step = 1
    /\ Len(users[1].onboarding_answers) = 1
    /\ users[1].onboarding_answers[1].question_index = 0

\* the last answer started the completion attempt
C34_WitnessCompletion ==
    /\ last.op = "answer"
    /\ CompletionStarted(last.replies)
    /\ Len(users[1].onboarding_answers) = NumQuestions


\* C35: in every reachable profile the number of records in
\* onboarding_answers equals onboarding_step and the i-th record (counted
\* from 0) has question_index i, across answers, restarts and failed
\* completion attempts.
C35_AnswersMatchStep ==
    \A u \in DOMAIN users :
        /\ Len(users[u].onboarding_answers) = users[u].onboarding_step
        /\ \A i \in DOMAIN users[u].onboarding_answers :
              users[u].onboarding_answers[i].question_index = i - 1

\* a completion attempt has failed and left all the records in place
C35_Witness ==
    /\ last.op = "answer"
    /\ last.replies = <<Reply("processing"), Reply("completion_error")>>
    /\ users[1].is_onboarding
    /\ users[1].onboarding_step = NumQuestions
    /\ Len(users[1].onboarding_answers) = NumQuestions

\* a restart after a completed questionnaire has emptied the records
C35_WitnessRestart ==
    /\ last.op = "psychotype"
    /\ users[1].onboarding_step = 0
    /\ users[1].onboarding_answers = <<>>
    /\ Truthy(users[1].selected["soul"])


\* C36: in every reachable state a profile with is_onboarding = false has
\* its psychotype set and a selected curator for each of center, soul, body
\* and business, so a user who finished onboarding is never turned away
\* from chatting for a missing curator, whatever classification result the
\* completion step accepted.
C36_FinishedProfileHasAllCurators ==
    \A u \in DOMAIN users :
        ~users[u].is_onboarding
            => /\ Truthy(users[u].psychotype)
               /\ \A s \in Spheres : Truthy(users[u].selected[s])
               /\ _user_has_all_curators(users, u)


(***************************************************************************)
(* Bindings and lookups with a record of what was bound: call.bound is the *)
(* set of <<chat, thread, sphere>> that update_user_thread was called      *)
(* with for the user so far.                                               *)
(***************************************************************************)

\* the spheres whose topics the user opens here
BindSpheres == {"soul", "body"}

BindInit ==
    /\ users = get_or_create_user(<<>>, 1)
    /\ messages = <<>>
    /\ summaries = <<>>
    /\ now = 0
    /\ skip = FALSE
    /\ last = [op |-> "init", user |-> 0, created |-> FALSE,
               replies |-> <<>>, gen |-> 0]
    /\ call = [fn |-> "none", bound |-> {}]

\* update_user_thread(u, s, th, ch)
BindThread(u) ==
    \E s \in BindSpheres, th \in ForumThreads, ch \in ForumChats :
        /\ users' = update_user_thread(users, u, s, th, ch)
        /\ call' = [fn |-> "update_user_thread",
                    bound |-> call.bound \cup {<<ch, th, s>>}]
        /\ UNCHANGED <<messages, summaries, now, skip, last>>

\* get_sphere_by_thread(u, ch, th)
LookupThread(u) ==
    \E th \in ForumThreads, ch \in ForumChats :
        /\ call' = [fn |-> "get_sphere_by_thread", bound |-> call.bound,
                    thread_id |-> th, chat_id |-> ch,
                    result |-> get_sphere_by_thread(users, u, ch, th)]
        /\ UNCHANGED <<users, messages, summaries, now, skip, last>>

BindNext ==
    \E u \in Users :
        \/ BindThread(u)
        \/ LookupThread(u)

BindSpec == BindInit /\ [][BindNext]_vars

\* C37: get_sphere_by_thread(user, chat, thread) returns a sphere S only if
\* the exact pair (chat, thread) was bound to S by an earlier
\* update_user_thread call for that user; in particular binding a topic in
\* a second chat never makes a thread id bound in the first chat resolve
\* in the second chat.
C37_LookupOnlyWhatWasBound ==
    (call.fn = "get_sphere_by_thread" /\ Truthy(call.result))
        => <<call.chat_id, call.thread_id, call.result>> \in call.bound


-----------------------------------------------------------------------------
(* Messages in pairs.                                                      *)

\* the Message rows of one conversation with one role
RowsOfRole(msgs, user_id, sphere, role) ==
    {i \in DOMAIN msgs : /\ msgs[i].user_id = user_id
                         /\ msgs[i].sphere = sphere
                         /\ msgs[i].role = role}

\* as many rows of role user as of role assistant in every conversation
PairsBalanced(msgs) ==
    \A i \in DOMAIN msgs :
        Cardinality(RowsOfRole(msgs, msgs[i].user_id, msgs[i].sphere, "user"))
            = Cardinality(RowsOfRole(msgs, msgs[i].user_id, msgs[i].sphere,
                                     "assistant"))

\* C38: Messages are persisted in pairs: in every reachable state every
\* user and sphere has as many stored Messages of role user as of role
\* assistant, and every stored pair (a user row followed by the assistant
\* row of the same conversation, written by one turn) belongs to a turn
\* whose generation call succeeded.
C38_MessagesStoredInPairsOfAnsweredTurns ==
    [][/\ PairsBalanced(messages')
       /\ Inserted # <<>>
            => /\ Len(Inserted) = 2
               /\ Inserted[1].role = "user" /\ Inserted[2].role = "assistant"
               /\ Inserted[1].user_id = Inserted[2].user_id
               /\ Inserted[1].sphere = Inserted[2].sphere
               /\ ~BackendFailure(call'.e.gen)]_vars


-----------------------------------------------------------------------------
(* Windows of the summaries.                                               *)

\* Summary row k belongs to the conversation of Message row i
SameStream(i, k) ==
    /\ messages[i].user_id = summaries[k].user_id
    /\ messages[i].sphere = summaries[k].sphere

=============================================================================
